---- MODULE Spec2Model ----
(***************************************************************************)
(* Model of the workflow subsystem of minix:                               *)
(*   core/scheduler/workflow.py             Workflow (builder, validation, *)
(*                                          LCA-factoring canvas compiler) *)
(*   core/scheduler/task/workflow_tasks.py  ExtractOneTask,                *)
(*                                          ExtractSinksTask               *)
(*   core/scheduler/workflow_tasks.py       IdentityTask                   *)
(* A Workflow object is built by add, compiled by to_canvas into a Celery  *)
(* canvas (chain / group / chord of task signatures), and the canvas is    *)
(* run one task invocation at a time.                                      *)
(***************************************************************************)
EXTENDS Integers, Sequences, FiniteSets, TLC

VARIABLES
    name,              \* Workflow.name
    nodes,             \* Workflow._nodes: insertion-ordered, a sequence of WorkflowNode
    ancestors_cache,   \* Workflow._ancestors_cache: node_id -> set of node ids
    depth_cache,       \* Workflow._depth_cache: node_id -> depth
    op,                \* the operation performed last
    result,            \* what the last add / to_canvas call returned or raised
    done,              \* run of the compiled canvas: leaf path -> value returned
    extracted,         \* value returned by the last projection task run
    chain_context,     \* the value threaded through a pipeline of step tasks
    invoked,           \* the user task invocations made by the steps of the pipeline
    threads,           \* the to_canvas calls in progress, one per thread
    api_keys,          \* the api_keys table: rows of ApiKeyEntity, row i has id i
    now,               \* the clock read by datetime.utcnow()
    dag_call           \* the validate_dag call in progress: its loop variables

vars == <<name, nodes, ancestors_cache, depth_cache, op, result, done, extracted,
          chain_context, invoked, threads, api_keys, now, dag_call>>

-----------------------------------------------------------------------------
(* Bounds of the model.                                                    *)

\* names given to the nodes, in the order in which they are added
NodeIds == <<"a", "b", "c", "d", "e", "f", "g", "h">>
\* number of nodes a workflow holds at most
MaxNodes == 4
\* length of one node's depends_on at most
MaxDeps == 3
\* irregular nodes of a workflow at most: nodes whose depends_on names the
\* node itself or a node not added before it, and nodes added with
\* consume_dependency_results = False
MaxIrregular == 1
\* length of the sink list handed to ExtractSinksTask at most
MaxSinkIds == 2
\* nodes at most of a workflow whose nodes have at most two parents
MaxJoinNodes == 5
\* nodes of a workflow whose runs are projected at most
MaxSmallNodes == 3
\* nodes at most of a workflow built from arbitrary depends_on arguments
MaxValidateNodes == 3
\* length at most of such a depends_on argument
MaxValidateDeps == 2
MaxStepIds == 3
MaxStepDeps == 2
MaxArity == 3
MaxCallArgs == 2
MaxThreads == 2
MaxThreadNodes == 4

Tasks == {"T", "F"}
None == "None"


\* rows of the api_keys table at most
MaxKeys == 2
\* the clock stops at this time
MaxTime == 1

-----------------------------------------------------------------------------
(* Generic helpers.                                                        *)

Range(s) == {s[i] : i \in DOMAIN s}

EmptyMap == [x \in {} |-> {}]

\* all sequences over S of length at most n
RECURSIVE SeqsUpTo(_, _)
SeqsUpTo(S, n) ==
    IF n = 0 THEN {<<>>}
    ELSE LET shorter == SeqsUpTo(S, n - 1)
         IN  shorter \cup {Append(s, x) : s \in {t \in shorter : Len(t) = n - 1}, x \in S}

IndexIn(s, x) == CHOOSE i \in DOMAIN s : s[i] = x

RECURSIVE SumSeq(_)
SumSeq(s) == IF s = <<>> THEN 0 ELSE Head(s) + SumSeq(Tail(s))

\* number of positions of s that hold x
CountIn(s, x) == Cardinality({i \in DOMAIN s : s[i] = x})

-----------------------------------------------------------------------------
(* WorkflowNode and the node mapping.                                      *)

WorkflowNode(node_id, task, depends_on, consume) ==
    [node_id |-> node_id, task |-> task, depends_on |-> depends_on,
     consume_dependency_results |-> consume]

\* keys of self._nodes, in insertion order
NodeKeys(ns) == [i \in DOMAIN ns |-> ns[i].node_id]

NodeIdSet(ns) == {ns[i].node_id : i \in DOMAIN ns}

\* self._nodes[node_id]
NodeAt(ns, node_id) == ns[CHOOSE i \in DOMAIN ns : ns[i].node_id = node_id]

NoResult == [kind |-> "none"]
Ok == [kind |-> "ok"]
\* an exception: msg is the fixed part of its message, detail the values
\* formatted into it
Raise(cls, msg, detail) ==
    [kind |-> "error", cls |-> cls, msg |-> msg, detail |-> detail]

-----------------------------------------------------------------------------
(* Workflow.add                                                            *)

\* self._nodes[node_id] = WorkflowNode(...) on a dict: a new key is appended
DictSet(ns, node) ==
    IF node.node_id \in NodeIdSet(ns)
    THEN [i \in DOMAIN ns |-> IF ns[i].node_id = node.node_id THEN node ELSE ns[i]]
    ELSE Append(ns, node)

\* add without the duplicate check; a faulty variant of AddRejects
AddNeverRejects(ns, node_id) == FALSE

\* the guard of add: does it raise "Duplicate node_id"?
AddRejects(ns, node_id) == node_id \in NodeIdSet(ns)

add(task, node_id, depends_on, consume) ==
    /\ op' = "add"
    /\ IF AddRejects(nodes, node_id)
       THEN /\ result' = [kind |-> "error", cls |-> "WorkflowError",
                            msg |-> "Duplicate node_id", node_id |-> node_id]
            /\ UNCHANGED <<nodes, ancestors_cache, depth_cache>>
       ELSE /\ nodes' = DictSet(nodes, WorkflowNode(node_id, task, depends_on, consume))
            /\ ancestors_cache' = EmptyMap
            /\ depth_cache' = EmptyMap
            /\ result' = [kind |-> "ok", node_id |-> node_id]
    /\ done' = EmptyMap
    /\ extracted' = NoResult
    /\ UNCHANGED <<name, chain_context, invoked, threads, api_keys, now, dag_call>>

-----------------------------------------------------------------------------
(* Workflow._dependents_map, Workflow.sinks, Workflow.uses_join            *)

\* dep_map[nid]: the dependents of nid, one entry per listing in a depends_on
RECURSIVE Dependents(_, _, _)
Dependents(ns, nid, i) ==
    IF i > Len(ns) THEN <<>>
    ELSE [k \in 1..CountIn(ns[i].depends_on, nid) |-> ns[i].node_id]
         \o Dependents(ns, nid, i + 1)

\* a map that lists a dependent once however often it names the node; a
\* faulty variant of _dependents_map
DependentsOnce(ns) ==
    [nid \in NodeIdSet(ns) |->
        SelectSeq(NodeKeys(ns), LAMBDA m : nid \in Range(NodeAt(ns, m).depends_on))]

_dependents_map(ns) == [nid \in NodeIdSet(ns) |-> Dependents(ns, nid, 1)]

\* a dep_map that takes any key (a defaultdict); a faulty variant of
\* DependentsMapRaises
DependentsMapTolerant(ns) == FALSE

\* dep_map[dep] raises KeyError when dep is not a node
DependentsMapRaises(ns) ==
    \E i \in DOMAIN ns : \E d \in Range(ns[i].depends_on) : d \notin NodeIdSet(ns)

\* the key of that KeyError: the first such dep in the order of the two loops
RECURSIVE FirstKeyError(_, _, _)
FirstKeyError(ns, i, j) ==
    IF i > Len(ns) THEN None
    ELSE IF j > Len(ns[i].depends_on) THEN FirstKeyError(ns, i + 1, 1)
    ELSE IF ns[i].depends_on[j] \notin NodeIdSet(ns) THEN ns[i].depends_on[j]
    ELSE FirstKeyError(ns, i, j + 1)

\* the list sinks returns when _dependents_map does not raise
sinks(ns) ==
    LET dep_map == _dependents_map(ns)
    IN  SelectSeq(NodeKeys(ns), LAMBDA nid : dep_map[nid] = <<>>)

uses_join(ns) == \E i \in DOMAIN ns : Len(ns[i].depends_on) > 1

-----------------------------------------------------------------------------
(* Workflow.validate_dag                                                   *)

\* the first loop without its first test; a faulty variant of CheckDeps
RECURSIVE CheckSelfOnly(_, _, _)
CheckSelfOnly(ns, i, j) ==
    IF i > Len(ns) THEN Ok
    ELSE IF j > Len(ns[i].depends_on) THEN CheckSelfOnly(ns, i + 1, 1)
    ELSE IF ns[i].depends_on[j] = ns[i].node_id
    THEN Raise("WorkflowError", "cannot depend on itself", [node_id |-> ns[i].node_id])
    ELSE CheckSelfOnly(ns, i, j + 1)

\* the first loop without its second test; a faulty variant of CheckDeps
RECURSIVE CheckMissingOnly(_, _, _)
CheckMissingOnly(ns, i, j) ==
    IF i > Len(ns) THEN Ok
    ELSE IF j > Len(ns[i].depends_on) THEN CheckMissingOnly(ns, i + 1, 1)
    ELSE IF ns[i].depends_on[j] \notin NodeIdSet(ns)
    THEN Raise("WorkflowError", "depends on missing node",
               [node_id |-> ns[i].node_id, dep |-> ns[i].depends_on[j]])
    ELSE CheckMissingOnly(ns, i, j + 1)

\* first loop: the first offending (node, dep) pair in iteration order
RECURSIVE CheckDeps(_, _, _)
CheckDeps(ns, i, j) ==
    IF i > Len(ns) THEN Ok
    ELSE IF j > Len(ns[i].depends_on) THEN CheckDeps(ns, i + 1, 1)
    ELSE LET dep == ns[i].depends_on[j]
         IN  IF dep \notin NodeIdSet(ns)
             THEN Raise("WorkflowError", "depends on missing node",
                        [node_id |-> ns[i].node_id, dep |-> dep])
             ELSE IF dep = ns[i].node_id
             THEN Raise("WorkflowError", "cannot depend on itself",
                        [node_id |-> ns[i].node_id])
             ELSE CheckDeps(ns, i, j + 1)

\* a loop over children[nid] that releases no child; a faulty variant of Relax
NoRelax(chs, ready, indeg) == [ready |-> ready, indeg |-> indeg]

\* for ch in children[nid]: indeg[ch] -= 1; if indeg[ch] == 0: ready.append(ch)
RECURSIVE Relax(_, _, _)
Relax(chs, ready, indeg) ==
    IF chs = <<>> THEN [ready |-> ready, indeg |-> indeg]
    ELSE LET ch == Head(chs)
             indeg2 == [indeg EXCEPT ![ch] = @ - 1]
         IN  Relax(Tail(chs), IF indeg2[ch] = 0 THEN Append(ready, ch) ELSE ready, indeg2)

\* while ready: nid = ready.pop(); visited += 1; ...
RECURSIVE Kahn(_, _, _, _)
Kahn(children, ready, indeg, visited) ==
    IF ready = <<>> THEN visited
    ELSE LET nid == ready[Len(ready)]
             r == Relax(children[nid], SubSeq(ready, 1, Len(ready) - 1), indeg)
         IN  Kahn(children, r.ready, r.indeg, visited + 1)

KahnVisited(ns) ==
    LET indeg == [nid \in NodeIdSet(ns) |-> Len(NodeAt(ns, nid).depends_on)]
        children == _dependents_map(ns)
        ready == SelectSeq(NodeKeys(ns), LAMBDA nid : indeg[nid] = 0)
    IN  Kahn(children, ready, indeg, 0)

validate_dag(ns) ==
    LET first == CheckDeps(ns, 1, 1)
    IN  IF first.kind = "error" THEN first
        ELSE IF KahnVisited(ns) # Len(ns)
        THEN Raise("CycleError", "Workflow contains a cycle", <<>>)
        ELSE Ok

-----------------------------------------------------------------------------
(* Graph helpers: Workflow._ancestors, Workflow._depth, Workflow._lca.     *)
(* `self` is the Workflow object: [_nodes, _ancestors_cache, _depth_cache].*)
(* A call reads a cache where it holds an entry; the entries a call writes *)
(* are the values it computes, so the value of every call made by one      *)
(* to_canvas is a function of the object as it is when to_canvas starts.   *)

Workflow(ns, ac, dc) == [_nodes |-> ns, _ancestors_cache |-> ac, _depth_cache |-> dc]

DependsOn(self, node_id) == NodeAt(self._nodes, node_id).depends_on

SetMax(S) == CHOOSE m \in S : \A x \in S : x <= m

RECURSIVE _ancestors(_, _)
_ancestors(self, node_id) ==
    IF node_id \in DOMAIN self._ancestors_cache THEN self._ancestors_cache[node_id]
    ELSE UNION {{dep} \cup _ancestors(self, dep) : dep \in Range(DependsOn(self, node_id))}

\* the keys a call of _ancestors(node_id) adds to self._ancestors_cache
RECURSIVE AncestorsWritten(_, _)
AncestorsWritten(self, node_id) ==
    IF node_id \in DOMAIN self._ancestors_cache THEN {}
    ELSE {node_id} \cup UNION {AncestorsWritten(self, dep) :
                                 dep \in Range(DependsOn(self, node_id))}

RECURSIVE _depth(_, _)
_depth(self, node_id) ==
    IF node_id \in DOMAIN self._depth_cache THEN self._depth_cache[node_id]
    ELSE IF DependsOn(self, node_id) = <<>> THEN 0
    ELSE 1 + SetMax({_depth(self, dep) : dep \in Range(DependsOn(self, node_id))})

\* the keys a call of _depth(node_id) adds to self._depth_cache
RECURSIVE DepthWritten(_, _)
DepthWritten(self, node_id) ==
    IF node_id \in DOMAIN self._depth_cache THEN {}
    ELSE {node_id} \cup UNION {DepthWritten(self, dep) :
                                 dep \in Range(DependsOn(self, node_id))}

\* common = intersection over node_ids of (_ancestors(nid) | {nid})
CommonAncestors(self, node_ids) ==
    {x \in NodeIdSet(self._nodes) :
        \A i \in DOMAIN node_ids : x \in _ancestors(self, node_ids[i]) \cup {node_ids[i]}}

\* max(common) without the depth key: the first element in iteration order
\* (a faulty variant of MaxByDepth)
MaxByOrder(self, common, ord) ==
    CHOOSE x \in common : \A y \in common : IndexIn(ord, x) <= IndexIn(ord, y)

\* max(common, key=self._depth): the first element of greatest depth in the
\* iteration order of the set `common`.  That order follows the string hashes,
\* which are randomised per process, so it is the argument `ord`: a sequence
\* that lists every node id once.
MaxByDepth(self, common, ord) ==
    LET top == {x \in common : \A y \in common : _depth(self, y) <= _depth(self, x)}
    IN  CHOOSE x \in top : \A y \in top : IndexIn(ord, x) <= IndexIn(ord, y)

\* lca: the node chosen (None when there is none); anc, dep: the node ids
\* on which _ancestors and _depth were called
_lca(self, node_ids, ord) ==
    LET common == CommonAncestors(self, node_ids)
    IN  IF node_ids = <<>> THEN [lca |-> None, anc |-> {}, dep |-> {}]
        ELSE IF common = {} THEN [lca |-> None, anc |-> Range(node_ids), dep |-> {}]
        ELSE [lca |-> MaxByDepth(self, common, ord), anc |-> Range(node_ids),
              dep |-> common]

-----------------------------------------------------------------------------
(* Celery signatures and canvas primitives, as terms.                      *)

\* app.signature(task.get_name(), args=..., kwargs=..., immutable=not consume_upstream);
\* node_id records which node the signature was built for
_task_signature(node, consume_upstream) ==
    [t |-> "sig", task |-> node.task, node_id |-> node.node_id,
     immutable |-> ~consume_upstream]

_identity_signature ==
    [t |-> "sig", task |-> "workflow.identity", node_id |-> None, immutable |-> FALSE]

chain(tasks) == [t |-> "chain", tasks |-> tasks]
group(tasks) == [t |-> "group", tasks |-> tasks]
chord(header, body) == [t |-> "chord", tasks |-> <<header, body>>]

-----------------------------------------------------------------------------
(* Compilation internals: Workflow._compile_abs, Workflow._compile_rel.    *)
(* A compile result is [ok, sig, anc, dep] or [ok, cls, msg, detail, anc,  *)
(* dep]: the canvas or the error raised (msg is the fixed part of its      *)
(* message, detail the values formatted into it), and the node ids on      *)
(* which _ancestors and _depth were called before it returned or raised.   *)

Compiled(sig, anc, dep) == [ok |-> TRUE, sig |-> sig, anc |-> anc, dep |-> dep]
CompileRaises(msg, detail, anc, dep) ==
    [ok |-> FALSE, cls |-> "WorkflowError", msg |-> msg, detail |-> detail,
     anc |-> anc, dep |-> dep]
\* a result r with the calls made before it added
After(r, anc, dep) == [r EXCEPT !.anc = @ \cup anc, !.dep = @ \cup dep]

RECURSIVE _compile_abs(_, _, _)
RECURSIVE _compile_rel(_, _, _, _)
RECURSIVE AbsItems(_, _, _)
RECURSIVE RelItems(_, _, _, _)

\* one more item of a list comprehension over compiled canvases: the canvas
\* r compiled first, then the others; the first error raised ends it
Item(r, rest) ==
    IF ~r.ok THEN r
    ELSE IF ~rest.ok THEN After(rest, r.anc, r.dep)
    ELSE Compiled(<<r.sig>> \o rest.sig, r.anc \cup rest.anc, r.dep \cup rest.dep)

\* [self._compile_abs(app=app, node_id=d) for d in deps]; sig is the list
AbsItems(self, deps, ord) ==
    IF deps = <<>> THEN Compiled(<<>>, {}, {})
    ELSE Item(_compile_abs(self, Head(deps), ord), AbsItems(self, Tail(deps), ord))

\* [self._compile_rel(app=app, prefix_id=prefix_id, node_id=d) for d in deps]
RelItems(self, prefix_id, deps, ord) ==
    IF deps = <<>> THEN Compiled(<<>>, {}, {})
    ELSE Item(_compile_rel(self, prefix_id, Head(deps), ord),
              RelItems(self, prefix_id, Tail(deps), ord))

\* group instead of chain; a faulty variant of ChainAfterDep
GroupWithDep(r, node_sig) ==
    IF ~r.ok THEN r ELSE Compiled(group(<<r.sig, node_sig>>), r.anc, r.dep)

\* return chain(self._compile_abs(app=app, node_id=deps[0]), node_sig)
\* (also the single-dependency return of _compile_rel), r being the compiled
\* dependency
ChainAfterDep(r, node_sig) ==
    IF ~r.ok THEN r ELSE Compiled(chain(<<r.sig, node_sig>>), r.anc, r.dep)

\* prefix = ...; header_items = [...]; return chain(prefix, group(header_items), node_sig)
JoinAroundPrefix(prefix, header_items, node_sig) ==
    IF ~prefix.ok THEN prefix
    ELSE IF ~header_items.ok THEN After(header_items, prefix.anc, prefix.dep)
    ELSE Compiled(chain(<<prefix.sig, group(header_items.sig), node_sig>>),
                  prefix.anc \cup header_items.anc, prefix.dep \cup header_items.dep)

\* header = group([...]); return chord(header, node_sig)
ChordOverHeader(header, node_sig) ==
    IF ~header.ok THEN header
    ELSE Compiled(chord(group(header.sig), node_sig), header.anc, header.dep)

\* the join branch of _compile_abs, l being what self._lca(deps) gave
AbsJoin(self, l, deps, node_sig, ord) ==
    IF l.lca = None
    THEN After(ChordOverHeader(AbsItems(self, deps, ord), node_sig), l.anc, l.dep)
    ELSE After(JoinAroundPrefix(_compile_abs(self, l.lca, ord),
                                RelItems(self, l.lca, deps, ord), node_sig),
               l.anc, l.dep)

_compile_abs(self, node_id, ord) ==
    LET node == NodeAt(self._nodes, node_id)
        deps == node.depends_on
        consume == node.consume_dependency_results /\ Len(deps) > 0
        node_sig == _task_signature(node, consume)
    IN  IF deps = <<>> THEN Compiled(node_sig, {}, {})
        ELSE IF Len(deps) = 1
        THEN ChainAfterDep(_compile_abs(self, deps[1], ord), node_sig)
        ELSE AbsJoin(self, _lca(self, deps, ord), deps, node_sig, ord)

\* header = group([...]); return chain(header, node_sig)
ChainAfterHeader(header, node_sig) ==
    IF ~header.ok THEN header
    ELSE Compiled(chain(<<group(header.sig), node_sig>>), header.anc, header.dep)

\* the join branch of _compile_rel, l being what self._lca(deps) gave
RelJoin(self, prefix_id, node_id, l, deps, node_sig, ord) ==
    IF l.lca # prefix_id
    THEN CompileRaises("Cannot compile join relative to prefix",
                       [node_id |-> node_id, prefix_id |-> prefix_id,
                        deps |-> deps, computed_lca |-> l.lca],
                       l.anc, l.dep)
    ELSE After(ChainAfterHeader(RelItems(self, prefix_id, deps, ord), node_sig),
               l.anc, l.dep)

\* a branch compiled from its roots, as if no prefix had run; a faulty
\* variant of _compile_rel
CompileFromRoots(self, prefix_id, node_id, ord) == _compile_abs(self, node_id, ord)

_compile_rel(self, prefix_id, node_id, ord) ==
    LET node == NodeAt(self._nodes, node_id)
        deps == node.depends_on
        consume == node.consume_dependency_results
        node_sig == _task_signature(node, consume)
    IN  IF node_id = prefix_id THEN Compiled(_identity_signature, {}, {})
        ELSE IF deps = <<>>
        THEN CompileRaises("node has no deps and is not the prefix",
                           [node_id |-> node_id, prefix_id |-> prefix_id], {}, {})
        ELSE IF Len(deps) = 1
        THEN ChainAfterDep(_compile_rel(self, prefix_id, deps[1], ord), node_sig)
        ELSE RelJoin(self, prefix_id, node_id, _lca(self, deps, ord), deps, node_sig, ord)

-----------------------------------------------------------------------------
(* Workflow.to_canvas                                                      *)

\* a cache that keeps the direct parents alone (acc.add(dep) without
\* acc |= self._ancestors(dep)); a faulty variant of CacheAfterAncestors
CacheDirectParents(self, anc) ==
    LET written == UNION {AncestorsWritten(self, n) : n \in anc}
    IN  [n \in DOMAIN self._ancestors_cache \cup written |->
            IF n \in DOMAIN self._ancestors_cache THEN self._ancestors_cache[n]
            ELSE Range(DependsOn(self, n))]

\* the caches after the _ancestors / _depth calls on the node ids in anc, dep
CacheAfterAncestors(self, anc) ==
    LET written == UNION {AncestorsWritten(self, n) : n \in anc}
    IN  [n \in DOMAIN self._ancestors_cache \cup written |-> _ancestors(self, n)]

CacheAfterDepth(self, dep) ==
    LET written == UNION {DepthWritten(self, n) : n \in dep}
    IN  [n \in DOMAIN self._depth_cache \cup written |-> _depth(self, n)]

ToCanvasRaises(target_node_id, cls, msg, detail) ==
    [kind |-> "error", cls |-> cls, msg |-> msg, detail |-> detail,
     target |-> target_node_id]

\* an unknown target replaced by the node added last; a faulty variant of
\* KnownTarget
LastForUnknown(self, target_node_id, t) ==
    IF self._nodes = <<>>
    THEN ToCanvasRaises(target_node_id, "WorkflowError", "Unknown target_node_id", t)
    ELSE IF t \notin NodeIdSet(self._nodes)
    THEN [kind |-> "target", node_id |-> self._nodes[Len(self._nodes)].node_id]
    ELSE [kind |-> "target", node_id |-> t]

\* if target_node_id not in self._nodes: raise ...; t is the node to compile
KnownTarget(self, target_node_id, t) ==
    IF t \notin NodeIdSet(self._nodes)
    THEN ToCanvasRaises(target_node_id, "WorkflowError", "Unknown target_node_id", t)
    ELSE [kind |-> "target", node_id |-> t]

\* compiles the single sink whenever there is one, whatever the target
SinkFirst(self, target_node_id, v, s) ==
    IF v.kind = "error" THEN ToCanvasRaises(target_node_id, v.cls, v.msg, v.detail)
    ELSE IF Len(s) = 1 THEN [kind |-> "target", node_id |-> s[1]]
    ELSE KnownTarget(self, target_node_id, target_node_id)

\* to_canvas with the validation moved behind the resolution of the target;
\* a faulty variant of TargetOrSink
TargetThenValidate(self, target_node_id, v, s) ==
    IF target_node_id = None /\ s = <<>>
    THEN ToCanvasRaises(target_node_id, "WorkflowError", "Workflow has no nodes", <<>>)
    ELSE IF target_node_id = None /\ Len(s) # 1
    THEN ToCanvasRaises(target_node_id, "WorkflowError", "Workflow has multiple sinks", s)
    ELSE IF target_node_id # None /\ target_node_id \notin NodeIdSet(self._nodes)
    THEN ToCanvasRaises(target_node_id, "WorkflowError", "Unknown target_node_id",
                        target_node_id)
    ELSE IF v.kind = "error"
    THEN ToCanvasRaises(target_node_id, v.cls, v.msg, v.detail)
    ELSE [kind |-> "target",
          node_id |-> IF target_node_id = None THEN s[1] ELSE target_node_id]

\* to_canvas after self.validate_dag() gave v, s being self.sinks()
TargetOrSink(self, target_node_id, v, s) ==
    IF v.kind = "error" THEN ToCanvasRaises(target_node_id, v.cls, v.msg, v.detail)
    ELSE IF target_node_id = None /\ s = <<>>
    THEN ToCanvasRaises(target_node_id, "WorkflowError", "Workflow has no nodes", <<>>)
    ELSE IF target_node_id = None /\ Len(s) # 1
    THEN ToCanvasRaises(target_node_id, "WorkflowError", "Workflow has multiple sinks", s)
    ELSE KnownTarget(self, target_node_id,
                     IF target_node_id = None THEN s[1] ELSE target_node_id)

\* a faulty variant of ResolveTarget
ResolveTargetSink(self, target_node_id) ==
    SinkFirst(self, target_node_id, validate_dag(self._nodes), sinks(self._nodes))

\* the part of to_canvas before compilation: the node it will compile (the
\* argument, or the single sink), or the error it raises
ResolveTarget(self, target_node_id) ==
    TargetOrSink(self, target_node_id, validate_dag(self._nodes), sinks(self._nodes))

\* return self._compile_abs(app=app, node_id=target_node_id): r is what
\* _compile_abs gave for node t
CompiledTarget(self, target_node_id, t, r) ==
    [out |-> IF r.ok
             THEN [kind |-> "plan", target |-> target_node_id, node_id |-> t,
                   plan |-> r.sig]
             ELSE ToCanvasRaises(target_node_id, r.cls, r.msg, r.detail),
     ac |-> CacheAfterAncestors(self, r.anc),
     dc |-> CacheAfterDepth(self, r.dep)]

\* to_canvas once the target is resolved to t (a node, or an error)
CompileResolved(self, target_node_id, t, ord) ==
    IF t.kind = "error"
    THEN [out |-> t, ac |-> self._ancestors_cache, dc |-> self._depth_cache]
    ELSE CompiledTarget(self, target_node_id, t.node_id,
                        _compile_abs(self, t.node_id, ord))

\* what to_canvas returns or raises, and the caches it leaves
ToCanvasRun(self, target_node_id, ord) ==
    CompileResolved(self, target_node_id, ResolveTarget(self, target_node_id), ord)

\* the state after a to_canvas call that gave `run`, the node mapping apart
Returned(run) ==
    /\ op' = "to_canvas"
    /\ result' = run.out
    /\ ancestors_cache' = run.ac
    /\ depth_cache' = run.dc
    /\ done' = EmptyMap
    /\ extracted' = NoResult
    /\ UNCHANGED <<name, chain_context, invoked, threads, api_keys, now, dag_call>>

\* to_canvas with a plausible slip: the node mapping is cut down to the
\* nodes other than the target (a faulty variant of to_canvas)
to_canvas_pruning(target_node_id, ord) ==
    /\ Returned(ToCanvasRun(Workflow(nodes, ancestors_cache, depth_cache),
                            target_node_id, ord))
    /\ nodes' = SelectSeq(nodes, LAMBDA n : n.node_id # target_node_id)

to_canvas(target_node_id, ord) ==
    /\ Returned(ToCanvasRun(Workflow(nodes, ancestors_cache, depth_cache),
                            target_node_id, ord))
    /\ UNCHANGED nodes

-----------------------------------------------------------------------------
(* to_canvas calls made by several threads on one Workflow.  What the      *)
(* threads share is self._nodes, which they only read, and the two caches. *)
(* A call touches the caches in _ancestors and _depth alone: the test      *)
(* `node_id in cache` followed by the read, and the write when the value    *)
(* is computed; each is a step of its own here, taken in any order by the  *)
(* threads (a dict operation is atomic in CPython).  Everything else a     *)
(* call does is on local values.                                           *)

Threads == 1..MaxThreads

IdleThread ==
    [pc |-> "idle", target |-> None, ord |-> <<>>, anc_todo |-> {}, dep_todo |-> {},
     stack |-> <<>>, view_ac |-> EmptyMap, view_dc |-> EmptyMap, out |-> NoResult]

\* a call of _ancestors or _depth on node: at the cache test; in the loop
\* over depends_on at entry i, with the local acc or the greatest depth so far
Frame(fn, node) ==
    [fn |-> fn, node |-> node, phase |-> "check", i |-> 1, acc |-> {}, best |-> 0]

\* cache[key] = value
CachePut(cache, key, value) ==
    [k \in DOMAIN cache \cup {key} |-> IF k = key THEN value ELSE cache[k]]

\* acc stored in the cache before the loop fills it, and filled in place; a
\* faulty variant of AccLocal
AccStoredFirst(cache, node, acc) == CachePut(cache, node, acc)

\* the cache while the loop of _ancestors fills acc: acc is a local set,
\* stored only after the loop
AccLocal(cache, node, acc) == cache

Top(th) == th.stack[Len(th.stack)]
Below(th) == SubSeq(th.stack, 1, Len(th.stack) - 1)
WithTop(th, f) == [th EXCEPT !.stack = Append(Below(th), f)]

\* the call on top of the stack returns v: to the loop of the call below it
\* (acc |= v, or the next operand of max), or to _lca
Deliver(th, v) ==
    IF Len(th.stack) = 1
    THEN IF Top(th).fn = "anc"
         THEN [th EXCEPT !.stack = <<>>,
                         !.view_ac = CachePut(@, Top(th).node, v),
                         !.anc_todo = @ \ {Top(th).node}]
         ELSE [th EXCEPT !.stack = <<>>,
                         !.view_dc = CachePut(@, Top(th).node, v),
                         !.dep_todo = @ \ {Top(th).node}]
    ELSE [th EXCEPT !.stack =
            Append(SubSeq(th.stack, 1, Len(th.stack) - 2),
                   IF Top(th).fn = "anc"
                   THEN [th.stack[Len(th.stack) - 1] EXCEPT !.acc = @ \cup v, !.i = @ + 1]
                   ELSE [th.stack[Len(th.stack) - 1] EXCEPT
                           !.best = IF v > @ THEN v ELSE @, !.i = @ + 1])]

Stepped3(th, ac, dc) == [th |-> th, ac |-> ac, dc |-> dc]

\* if node_id in cache: return cache[node_id] -- else on to the loop
CacheTest(th, f, ac, dc) ==
    IF f.fn = "anc"
    THEN IF f.node \in DOMAIN ac THEN Stepped3(Deliver(th, ac[f.node]), ac, dc)
         ELSE Stepped3(WithTop(th, [f EXCEPT !.phase = "loop"]),
                       AccLocal(ac, f.node, {}), dc)
    ELSE IF f.node \in DOMAIN dc THEN Stepped3(Deliver(th, dc[f.node]), ac, dc)
         ELSE Stepped3(WithTop(th, [f EXCEPT !.phase = "loop"]), ac, dc)

\* the loop at entry dep of depends_on: acc.add(dep) and the recursive call
Recurse(th, f, dep, ac, dc) ==
    IF f.fn = "anc"
    THEN Stepped3([th EXCEPT !.stack =
                      Append(Append(Below(th), [f EXCEPT !.acc = @ \cup {dep}]),
                             Frame("anc", dep))],
                  AccLocal(ac, f.node, f.acc \cup {dep}), dc)
    ELSE Stepped3([th EXCEPT !.stack = Append(th.stack, Frame("depth", dep))], ac, dc)

\* the loop is over: cache[node_id] = value; return value
StoreAndReturn(th, f, deps, ac, dc) ==
    IF f.fn = "anc"
    THEN Stepped3(Deliver(th, f.acc), CachePut(ac, f.node, f.acc), dc)
    ELSE Stepped3(Deliver(th, IF deps = <<>> THEN 0 ELSE 1 + f.best), ac,
                  CachePut(dc, f.node, IF deps = <<>> THEN 0 ELSE 1 + f.best))

\* one step of the call on top of the stack of th
FrameStep(th, f, deps, ac, dc) ==
    IF f.phase = "check" THEN CacheTest(th, f, ac, dc)
    ELSE IF f.i <= Len(deps) THEN Recurse(th, f, deps[f.i], ac, dc)
    ELSE StoreAndReturn(th, f, deps, ac, dc)

\* a thread that has resolved its target to r: it has failed, or it is left
\* with the calls of _ancestors and _depth that _lca makes while c, the
\* canvas of the target, is compiled
Started(target_node_id, ord, r, c) ==
    IF r.kind = "error"
    THEN [IdleThread EXCEPT !.pc = "done", !.target = target_node_id, !.ord = ord,
                            !.out = r]
    ELSE [IdleThread EXCEPT !.pc = "busy", !.target = target_node_id, !.ord = ord,
                            !.anc_todo = c.anc, !.dep_todo = c.dep]

ThreadFrame ==
    UNCHANGED <<name, nodes, op, result, done, extracted, chain_context, invoked, api_keys, now, dag_call>>

\* thread t calls to_canvas: validate_dag, sinks and the test of the target
\* work on the node mapping alone
thread_start(t, target_node_id, ord) ==
    /\ threads[t].pc = "idle"
    /\ \A u \in Threads : threads[u].pc # "idle" => threads[u].ord = ord
    /\ threads' =
          [threads EXCEPT ![t] =
              Started(target_node_id, ord,
                      ResolveTarget(Workflow(nodes, ancestors_cache, depth_cache),
                                    target_node_id),
                      IF ResolveTarget(Workflow(nodes, ancestors_cache, depth_cache),
                                       target_node_id).kind = "error"
                      THEN Compiled(<<>>, {}, {})
                      ELSE _compile_abs(Workflow(nodes, ancestors_cache, depth_cache),
                                        ResolveTarget(Workflow(nodes, ancestors_cache,
                                                               depth_cache),
                                                      target_node_id).node_id,
                                        ord))]
    /\ UNCHANGED <<ancestors_cache, depth_cache>>
    /\ ThreadFrame

\* _lca of thread t calls _ancestors or _depth on a node
thread_call(t, fn, node) ==
    /\ threads[t].pc = "busy"
    /\ threads[t].stack = <<>>
    /\ node \in (IF fn = "anc" THEN threads[t].anc_todo ELSE threads[t].dep_todo)
    /\ threads' = [threads EXCEPT ![t].stack = <<Frame(fn, node)>>]
    /\ UNCHANGED <<ancestors_cache, depth_cache>>
    /\ ThreadFrame

\* the state after a step of thread t that gave s
ThreadStepped(t, s) ==
    /\ threads' = [threads EXCEPT ![t] = s.th]
    /\ ancestors_cache' = s.ac
    /\ depth_cache' = s.dc
    /\ ThreadFrame

\* thread t takes the next step of its _ancestors or _depth call
thread_step(t) ==
    /\ threads[t].pc = "busy"
    /\ threads[t].stack # <<>>
    /\ ThreadStepped(t, FrameStep(threads[t], Top(threads[t]),
                                  NodeAt(nodes, Top(threads[t]).node).depends_on,
                                  ancestors_cache, depth_cache))

\* the to_canvas call of thread t returns: its canvas is built from the
\* values that its _ancestors and _depth calls returned to it
thread_return(t) ==
    /\ threads[t].pc = "busy"
    /\ threads[t].stack = <<>>
    /\ threads[t].anc_todo = {} /\ threads[t].dep_todo = {}
    /\ threads' =
          [threads EXCEPT
             ![t].pc = "done",
             ![t].out = ToCanvasRun(Workflow(nodes, threads[t].view_ac, threads[t].view_dc),
                                    threads[t].target, threads[t].ord).out]
    /\ UNCHANGED <<ancestors_cache, depth_cache>>
    /\ ThreadFrame

-----------------------------------------------------------------------------
(* Running a canvas.  A leaf of the canvas (a signature) is named by its   *)
(* path from the root.  Celery semantics: a chain runs its tasks in order  *)
(* and hands each result to the next task; a group hands the value it      *)
(* receives to every member, runs the members in any order and returns the *)
(* list of their results; a chord runs its body on the result of the       *)
(* header; an immutable signature ignores the value handed to it.          *)

NoSource == [has |-> FALSE]
Source(p) == [has |-> TRUE, path |-> p]

IsPrefix(p, q) == Len(p) <= Len(q) /\ SubSeq(q, 1, Len(p)) = p

RECURSIVE SubCanvas(_, _)
SubCanvas(c, p) == IF p = <<>> THEN c ELSE SubCanvas(c.tasks[Head(p)], Tail(p))

\* the leaves of canvas c rooted at path p, each with the path of the
\* sub-canvas whose result is handed to it
RECURSIVE LeafSources(_, _, _)
LeafSources(c, p, src) ==
    IF c.t = "sig" THEN {[leaf |-> p, src |-> src]}
    ELSE IF c.t = "group"
    THEN UNION {LeafSources(c.tasks[i], Append(p, i), src) : i \in DOMAIN c.tasks}
    ELSE UNION {LeafSources(c.tasks[i], Append(p, i),
                            IF i = 1 THEN src ELSE Source(Append(p, i - 1))) :
                i \in DOMAIN c.tasks}

\* the result of the sub-canvas c at path p, once all its leaves have run
RECURSIVE ValueOf(_, _, _)
ValueOf(c, p, d) ==
    IF c.t = "sig" THEN d[p]
    ELSE IF c.t = "group"
    THEN [list |-> [i \in DOMAIN c.tasks |-> ValueOf(c.tasks[i], Append(p, i), d)]]
    ELSE ValueOf(c.tasks[Len(c.tasks)], Append(p, Len(c.tasks)), d)

PlanLeaves == IF result.kind = "plan" THEN LeafSources(result.plan, <<>>, NoSource) ELSE {}

Complete(p, d) == \A l \in PlanLeaves : IsPrefix(p, l.leaf) => l.leaf \in DOMAIN d

\* the value a user task returns: an uninterpreted term over what it received
TaskReturn(sig, args) == [node_id |-> sig.node_id, task |-> sig.task, args |-> args]

\* IdentityTask.run(x) returns x
IdentityRun(x) == x

\* one signature applied to the value handed to it (upstream.has says whether
\* there is one)
Invoke(sig, upstream) ==
    IF sig.task = "workflow.identity"
    THEN IF upstream.has THEN IdentityRun(upstream.value)
         ELSE [error |-> "TypeError"]
    ELSE IF sig.immutable \/ ~upstream.has THEN TaskReturn(sig, <<>>)
    ELSE TaskReturn(sig, <<upstream.value>>)

run_task(l) ==
    /\ result.kind = "plan"
    /\ l \in PlanLeaves
    /\ l.leaf \notin DOMAIN done
    /\ l.src.has => Complete(l.src.path, done)
    /\ LET upstream == IF l.src.has
                       THEN [has |-> TRUE,
                             value |-> ValueOf(SubCanvas(result.plan, l.src.path),
                                               l.src.path, done)]
                       ELSE [has |-> FALSE]
       IN  done' = [q \in DOMAIN done \cup {l.leaf} |->
                      IF q = l.leaf THEN Invoke(SubCanvas(result.plan, l.leaf), upstream)
                      ELSE done[q]]
    /\ op' = "run_task"
    /\ extracted' = NoResult
    /\ UNCHANGED <<name, nodes, ancestors_cache, depth_cache, result, chain_context, invoked, threads, api_keys, now, dag_call>>

RunFinished == result.kind = "plan" /\ Complete(<<>>, done)

\* the value the AsyncResult of the canvas holds when the run has finished
RunValue == ValueOf(result.plan, <<>>, done)

-----------------------------------------------------------------------------
(* Projection tasks: ExtractOneTask.run, ExtractSinksTask.run.             *)

\* the signatures of the user tasks that have run
RanLeaves == {p \in DOMAIN done : SubCanvas(result.plan, p).task # "workflow.identity"}

NodeOfLeaf(p) == SubCanvas(result.plan, p).node_id

\* the context of a run: node_id -> what that node's task returned
RunContext ==
    IF result.kind # "plan" THEN EmptyMap
    ELSE [n \in {NodeOfLeaf(p) : p \in RanLeaves} |->
            done[CHOOSE p \in RanLeaves : NodeOfLeaf(p) = n]]

KeyError(key) == [kind |-> "error", cls |-> "KeyError", key |-> key]
Returns(v) == [kind |-> "value", value |-> v]
PyDict(f) == [dict |-> f]

\* context.get(node_id): no failure on an absent key; a faulty
\* variant of ExtractOneRun
ExtractOneGet(context, node_id) ==
    IF node_id \in DOMAIN context THEN Returns(context[node_id]) ELSE Returns(None)

\* return context[node_id]
ExtractOneRun(context, node_id) ==
    IF node_id \in DOMAIN context THEN Returns(context[node_id]) ELSE KeyError(node_id)

\* the first id of the list that is no key of the context
FirstMissing(context, ids) ==
    ids[CHOOSE i \in DOMAIN ids :
          /\ ids[i] \notin DOMAIN context
          /\ \A j \in 1..(i - 1) : ids[j] \in DOMAIN context]

\* the mapping also for a single sink; a faulty variant of ExtractSinksRun
ExtractSinksNoUnwrap(context, sink_node_ids) ==
    IF Range(sink_node_ids) \subseteq DOMAIN context
    THEN Returns(PyDict([nid \in Range(sink_node_ids) |-> context[nid]]))
    ELSE KeyError(FirstMissing(context, sink_node_ids))

\* {} for no sink; context[sink] for one; {nid: context[nid] for nid in ...} otherwise
ExtractSinksRun(context, sink_node_ids) ==
    IF sink_node_ids = <<>> THEN Returns(PyDict(EmptyMap))
    ELSE IF Len(sink_node_ids) = 1
    THEN IF sink_node_ids[1] \in DOMAIN context
         THEN Returns(context[sink_node_ids[1]])
         ELSE KeyError(sink_node_ids[1])
    ELSE IF Range(sink_node_ids) \subseteq DOMAIN context
    THEN Returns(PyDict([nid \in Range(sink_node_ids) |-> context[nid]]))
    ELSE KeyError(FirstMissing(context, sink_node_ids))

\* ExtractOneTask applied to the context of the finished run
extract_one(node_id) ==
    /\ RunFinished
    /\ op' = "extract_one"
    /\ extracted' = [call |-> <<node_id>>, out |-> ExtractOneRun(RunContext, node_id)]
    /\ UNCHANGED <<name, nodes, ancestors_cache, depth_cache, result, done,
                   chain_context, invoked, threads, api_keys, now, dag_call>>

\* ExtractSinksTask applied to the context of the finished run
extract_sinks(sink_node_ids) ==
    /\ RunFinished
    /\ op' = "extract_sinks"
    /\ extracted' = [call |-> sink_node_ids,
                     out |-> ExtractSinksRun(RunContext, sink_node_ids)]
    /\ UNCHANGED <<name, nodes, ancestors_cache, depth_cache, result, done,
                   chain_context, invoked, threads, api_keys, now, dag_call>>

-----------------------------------------------------------------------------
(* Step tasks: InitContextTask.run, ExecuteNodeTask.run.  A context is a   *)
(* Python dict node_id -> value, PyDict(f), or None.  A step takes the     *)
(* value the step before it returned and returns the next one; a step that *)
(* raises ends the pipeline.                                               *)

PyNone == [none |-> TRUE]
PyList(s) == [list |-> s]
PyStr(s) == [str |-> s]

\* a context that already holds an entry; a faulty variant of InitContextRun
SeededContext == PyDict([n \in {NodeIds[1]} |-> PyNone])

\* return {}
InitContextRun == PyDict(EmptyMap)

\* isinstance(v, (list, tuple))
IsList(v) == DOMAIN v = {"list"}

\* _RunArity: the positional parameters of run without a default, all its
\* positional parameters, and whether it has *args
_RunArity(min_positional, max_positional, has_varargs) ==
    [min_positional |-> min_positional, max_positional |-> max_positional,
     has_varargs |-> has_varargs]

\* _flatten_one_level: the elements of seq, those that are lists replaced by
\* their own elements
RECURSIVE _flatten_one_level(_)
_flatten_one_level(seq) ==
    IF seq = <<>> THEN <<>>
    ELSE (IF IsList(Head(seq)) THEN Head(seq).list ELSE <<Head(seq)>>)
         \o _flatten_one_level(Tail(seq))

\* fits: can run take the positional arguments a?
fits(arity, a) ==
    IF arity.has_varargs THEN Len(a) >= arity.min_positional
    ELSE arity.min_positional <= Len(a) /\ Len(a) <= arity.max_positional

TypeError(msg) == [kind |-> "error", cls |-> "TypeError", msg |-> msg]

\* the flattening branch of Task.__call__
FlattenOrRaise(arity, candidate2) ==
    IF fits(arity, candidate2) THEN Returns(candidate2)
    ELSE TypeError("run arity mismatch after unpack/flatten")

\* the direct unpack of Task.__call__, then the flattening branch
UnpackOrFlatten(arity, first, rest) ==
    IF fits(arity, first.list \o rest) THEN Returns(first.list \o rest)
    ELSE FlattenOrRaise(arity, _flatten_one_level(first.list) \o rest)

\* Task.__call__ passing every argument list through; a faulty variant of
\* NormalizeArgs
NeverUnpack(arity, args) == Returns(args)

\* Task.__call__ up to the call of run (minix_auto_unpack and
\* minix_auto_flatten as the class sets them): the positional arguments that
\* run is called with, or the TypeError raised
NormalizeArgs(arity, args) ==
    IF args # <<>> /\ IsList(Head(args))
          /\ (arity.has_varargs \/ arity.max_positional >= 2)
    THEN UnpackOrFlatten(arity, Head(args), Tail(args))
    ELSE Returns(args)

\* the call run(*args, **kwargs) of a user task whose run returns an
\* uninterpreted term over what it received; Python raises TypeError when the
\* positional arguments do not fit the signature
RunCall(task_name, arity, args, kwargs) ==
    IF fits(arity, args)
    THEN Returns([task |-> task_name, args |-> args, kwargs |-> kwargs])
    ELSE TypeError("run() positional arguments")

\* Task.__call__: the arguments normalised, then run called with them
TaskCall(task_name, arity, normalized, kwargs) ==
    IF normalized.kind = "error" THEN normalized
    ELSE RunCall(task_name, arity, normalized.value, kwargs)

\* the signatures of run of the registered user tasks:
\*   T, F, raises: run(self, *args, **kwargs)      one:  run(self, x, **kwargs)
\*   two: run(self, a, b, **kwargs)                opt:  run(self, a, b=None, **kwargs)
RunArityOf(task_name) ==
    CASE task_name = "one" -> _RunArity(1, 1, FALSE)
      [] task_name = "two" -> _RunArity(2, 2, FALSE)
      [] task_name = "opt" -> _RunArity(1, 2, FALSE)
      [] OTHER -> _RunArity(0, 0, TRUE)

\* a registry that resolves every name; a faulty variant of Registered
RegisteredAny == Tasks \cup {"raises", "one", "two", "opt", "unregistered"}

\* the task names registered in the Celery app: the user tasks, one of which
\* raises when it is called
Registered == Tasks \cup {"raises", "one", "two", "opt"}

\* t(*call_args, **task_kwargs): what the user task returns, an uninterpreted
\* term over what its run received, or the exception raised
UserCall(task_name, call_args, task_kwargs) ==
    IF task_name = "raises"
    THEN [kind |-> "error", cls |-> "UserError", key |-> task_name]
    ELSE TaskCall(task_name, RunArityOf(task_name),
                  NormalizeArgs(RunArityOf(task_name), call_args), task_kwargs)

\* if context is None: context = {}
ContextOrEmpty(ctx) == IF ctx = PyNone THEN EmptyMap ELSE ctx.dict

\* a guard that never finds the node; a faulty variant of AlreadyProduced
NeverProduced(ctx, node_id) == FALSE

\* if node_id in context
AlreadyProduced(ctx, node_id) == node_id \in DOMAIN ctx

\* the guard returning an empty dict; a faulty variant of GuardReturn
GuardReturnsEmpty(ctx) == Returns(PyDict(EmptyMap))

\* return dict(context)
GuardReturn(ctx) == Returns(PyDict(ctx))

\* only the first absent dependency reported; a faulty variant of MissingDeps
MissingFirst(ctx, depends_on) ==
    IF \A i \in DOMAIN depends_on : depends_on[i] \in DOMAIN ctx THEN <<>>
    ELSE <<Head(SelectSeq(depends_on, LAMBDA d : d \notin DOMAIN ctx))>>

\* missing = [d for d in depends_on if d not in context]
MissingDeps(ctx, depends_on) == SelectSeq(depends_on, LAMBDA d : d \notin DOMAIN ctx)

\* the list built in the order of the node ids instead of the order of
\* depends_on; a faulty variant of DepPayload
DepPayloadByKey(ctx, depends_on) ==
    IF Len(depends_on) = 1 THEN ctx[depends_on[1]]
    ELSE PyList([i \in DOMAIN SelectSeq(NodeIds, LAMBDA n : n \in Range(depends_on)) |->
                   ctx[SelectSeq(NodeIds, LAMBDA n : n \in Range(depends_on))[i]]])

\* context[depends_on[0]] for one dependency, [context[d] for d in depends_on]
\* otherwise
DepPayload(ctx, depends_on) ==
    IF Len(depends_on) = 1 THEN ctx[depends_on[1]]
    ELSE PyList([i \in DOMAIN depends_on |-> ctx[depends_on[i]]])

\* the payload put in front whenever the dependencies have results, whatever
\* the flag says; a faulty variant of CallArgs
CallArgsAnyFlag(ctx, task_args, depends_on, consume_dependency_results) ==
    IF depends_on # <<>> /\ Range(depends_on) \subseteq DOMAIN ctx
    THEN <<DepPayload(ctx, depends_on)>> \o task_args
    ELSE task_args

\* call_args = list(task_args), with dep_payload in front when the node
\* consumes the results of at least one dependency
CallArgs(ctx, task_args, depends_on, consume_dependency_results) ==
    IF consume_dependency_results /\ depends_on # <<>>
    THEN <<DepPayload(ctx, depends_on)>> \o task_args
    ELSE task_args

\* the exception of the user task caught and the context returned as it
\* was; a faulty variant of ContextWith
ContextWithCaught(ctx, node_id, r) ==
    IF r.kind = "error" THEN Returns(PyDict(ctx))
    ELSE Returns(PyDict([n \in DOMAIN ctx \cup {node_id} |->
                           IF n = node_id THEN r.value ELSE ctx[n]]))

\* new_ctx = dict(context); new_ctx[node_id] = result; return new_ctx --
\* or the exception of the user task, r being what the call gave
ContextWith(ctx, node_id, r) ==
    IF r.kind = "error" THEN r
    ELSE Returns(PyDict([n \in DOMAIN ctx \cup {node_id} |->
                           IF n = node_id THEN r.value ELSE ctx[n]]))

\* new_ctx aliasing the dict that was passed in, so that the write of
\* new_ctx[node_id] reaches it; a faulty variant of InputAfter
InputAliased(ctx, written) == IF written.kind = "value" THEN written.value.dict ELSE ctx

\* new_ctx = dict(context) is a copy: the write of new_ctx[node_id], whose
\* outcome is `written`, does not reach the dict that was passed in
InputAfter(ctx, written) == ctx

\* ExecuteNodeTask.run on the normalised context ctx: out is what it returns
\* or raises, calls the user task invocations it made, input the content of
\* the dict that was passed in when the call ends
ExecuteNodeOn(ctx, node_id, task_name, task_args, task_kwargs, depends_on, consume_dependency_results) ==
    IF AlreadyProduced(ctx, node_id)
    THEN [out |-> GuardReturn(ctx), calls |-> <<>>, input |-> ctx]
    ELSE IF consume_dependency_results /\ depends_on # <<>>
            /\ MissingDeps(ctx, depends_on) # <<>>
    THEN [out |-> KeyError([msg |-> "missing dependency results",
                            node_id |-> node_id,
                            missing |-> MissingDeps(ctx, depends_on),
                            available |-> DOMAIN ctx]),
          calls |-> <<>>, input |-> ctx]
    ELSE IF task_name \notin Registered
    THEN [out |-> KeyError([msg |-> "is not registered in this Celery app",
                            task_name |-> task_name]),
          calls |-> <<>>, input |-> ctx]
    ELSE [out |-> ContextWith(ctx, node_id,
                              UserCall(task_name,
                                       CallArgs(ctx, task_args, depends_on,
                                                consume_dependency_results),
                                       task_kwargs)),
          calls |-> <<[node_id |-> node_id, task_name |-> task_name,
                       args |-> CallArgs(ctx, task_args, depends_on,
                                         consume_dependency_results),
                       kwargs |-> task_kwargs]>>,
          input |-> InputAfter(ctx,
                               ContextWith(ctx, node_id,
                                           UserCall(task_name,
                                                    CallArgs(ctx, task_args, depends_on,
                                                             consume_dependency_results),
                                                    task_kwargs)))]

ExecuteNodeRun(ctx, node_id, task_name, task_args, task_kwargs, depends_on, consume_dependency_results) ==
    ExecuteNodeOn(ContextOrEmpty(ctx), node_id, task_name, task_args, task_kwargs,
                  depends_on, consume_dependency_results)

\* what a step call gave: the node of the step and its outcome
StepResult(node_id, out) == [kind |-> out.kind, node_id |-> node_id, out |-> out]

\* a step that raised has ended the pipeline
PipelineFailed == op \in {"init_context", "execute_node"} /\ result.kind = "error"

\* so has the projection step, the last step of a pipeline
PipelineEnded == PipelineFailed \/ op = "extract_step"

\* the arguments of a call of ExecuteNodeTask.run
StepCall(context, node_id, task_name, task_args, task_kwargs, depends_on, consume_dependency_results) ==
    [context |-> context, node_id |-> node_id, task_name |-> task_name,
     task_args |-> task_args, task_kwargs |-> task_kwargs, depends_on |-> depends_on,
     consume_dependency_results |-> consume_dependency_results]

\* the state after one call `call` of ExecuteNodeTask.run that gave `run`:
\* chain_context is the object that was passed in, as the call left it
Ran(call, run) ==
    /\ op' = "run_execute_node"
    /\ result' = [kind |-> run.out.kind, call |-> call, out |-> run.out]
    /\ invoked' = run.calls
    /\ chain_context' = IF chain_context = PyNone THEN PyNone ELSE PyDict(run.input)
    /\ UNCHANGED <<name, nodes, ancestors_cache, depth_cache, done, extracted, threads, api_keys, now, dag_call>>

\* one call of ExecuteNodeTask.run on the context chain_context
run_execute_node(node_id, task_name, task_args, task_kwargs, depends_on, consume_dependency_results) ==
    /\ op = "init"
    /\ Ran(StepCall(chain_context, node_id, task_name, task_args, task_kwargs,
                    depends_on, consume_dependency_results),
           ExecuteNodeRun(chain_context, node_id, task_name, task_args, task_kwargs,
                          depends_on, consume_dependency_results))

\* one call of ExecuteNodeTask.run with the node_id, task, depends_on and
\* flag of the i-th node of the workflow, on the context given
execute_added_node(i, context) ==
    Ran(StepCall(context, nodes[i].node_id, nodes[i].task, <<>>, EmptyMap,
                 nodes[i].depends_on, nodes[i].consume_dependency_results),
        ExecuteNodeRun(context, nodes[i].node_id, nodes[i].task, <<>>, EmptyMap,
                       nodes[i].depends_on, nodes[i].consume_dependency_results))

\* one call t(*args) of a task whose run has the arity `arity`: Task.__call__
\* normalises the arguments and calls run with them
task_call ==
    /\ op = "init" /\ result.kind = "input"
    /\ op' = "task_call"
    /\ result' = [kind |-> NormalizeArgs(result.arity, result.args).kind,
                  arity |-> result.arity, args |-> result.args,
                  out |-> NormalizeArgs(result.arity, result.args),
                  returned |-> TaskCall("t", result.arity,
                                        NormalizeArgs(result.arity, result.args), EmptyMap)]
    /\ UNCHANGED <<name, nodes, ancestors_cache, depth_cache, done, extracted,
                   chain_context, invoked, threads, api_keys, now, dag_call>>

\* the first step of a pipeline: InitContextTask
init_context ==
    /\ op' = "init_context"
    /\ result' = StepResult(None, Returns(InitContextRun))
    /\ chain_context' = InitContextRun
    /\ invoked' = <<>>
    /\ UNCHANGED <<name, nodes, ancestors_cache, depth_cache, done, extracted, threads, api_keys, now, dag_call>>

\* the state after a step that gave `run`: the value it returned is threaded on
Stepped(node_id, run) ==
    /\ op' = "execute_node"
    /\ result' = StepResult(node_id, run.out)
    /\ chain_context' = IF run.out.kind = "value" THEN run.out.value ELSE chain_context
    /\ invoked' = invoked \o run.calls
    /\ UNCHANGED <<name, nodes, ancestors_cache, depth_cache, done, extracted, threads, api_keys, now, dag_call>>

\* an ExecuteNodeTask step on the value threaded through the pipeline (None
\* when no step ran before it)
execute_node(node_id, task_name, task_args, task_kwargs, depends_on, consume_dependency_results) ==
    /\ ~PipelineEnded
    /\ Stepped(node_id,
               ExecuteNodeRun(chain_context, node_id, task_name, task_args, task_kwargs,
                              depends_on, consume_dependency_results))

\* the last step of a pipeline: ExtractOneTask on the context that the steps
\* before it threaded through
extract_step(node_id) ==
    /\ op \in {"init_context", "execute_node"}
    /\ ~PipelineFailed
    /\ op' = "extract_step"
    /\ extracted' = [call |-> <<node_id>>, out |-> ExtractOneRun(chain_context.dict, node_id)]
    /\ UNCHANGED <<name, nodes, ancestors_cache, depth_cache, result, done,
                   chain_context, invoked, threads, api_keys, now, dag_call>>

-----------------------------------------------------------------------------
(* A validate_dag call, one iteration of `while ready` at a time.  dag_call *)
(* holds the loop variables (indeg, children, ready, visited) and, for the  *)
(* properties, the node ids popped so far.                                  *)

DagIdle == [pc |-> "idle"]
DagDone(out, popped) == [pc |-> "done", out |-> out, popped |-> popped]

\* a pop that leaves nid in the ready list (ready[-1] read, not popped); a
\* faulty variant of ReadyAfterPop
ReadyKept(ready) == ready
\* nid = ready.pop(): the list without its last element
ReadyAfterPop(ready) == SubSeq(ready, 1, Len(ready) - 1)

\* the first loop, then indeg, children and ready as built before the
\* while loop
validate_dag_start ==
    /\ dag_call.pc = "idle"
    /\ dag_call' =
          IF CheckDeps(nodes, 1, 1).kind = "error"
          THEN DagDone(CheckDeps(nodes, 1, 1), <<>>)
          ELSE [pc |-> "loop",
                indeg |-> [nid \in NodeIdSet(nodes) |-> Len(NodeAt(nodes, nid).depends_on)],
                children |-> _dependents_map(nodes),
                ready |-> SelectSeq(NodeKeys(nodes),
                                    LAMBDA nid : Len(NodeAt(nodes, nid).depends_on) = 0),
                visited |-> 0,
                popped |-> <<>>]
    /\ UNCHANGED <<name, nodes, ancestors_cache, depth_cache, op, result, done,
                   extracted, chain_context, invoked, threads, api_keys, now>>

\* one test of `while ready`: an iteration of the loop, or the test of
\* visited after it and the return
validate_dag_step ==
    /\ dag_call.pc = "loop"
    /\ dag_call' =
          IF dag_call.ready = <<>>
          THEN DagDone(IF dag_call.visited # Len(nodes)
                       THEN Raise("CycleError", "Workflow contains a cycle", <<>>)
                       ELSE Ok,
                       dag_call.popped)
          ELSE [dag_call EXCEPT
                  !.ready = Relax(dag_call.children[dag_call.ready[Len(dag_call.ready)]],
                                  ReadyAfterPop(dag_call.ready), dag_call.indeg).ready,
                  !.indeg = Relax(dag_call.children[dag_call.ready[Len(dag_call.ready)]],
                                  ReadyAfterPop(dag_call.ready), dag_call.indeg).indeg,
                  !.visited = @ + 1,
                  !.popped = Append(@, dag_call.ready[Len(dag_call.ready)])]
    /\ UNCHANGED <<name, nodes, ancestors_cache, depth_cache, op, result, done,
                   extracted, chain_context, invoked, threads, api_keys, now>>

-----------------------------------------------------------------------------
(* API keys: ApiKeyEntity, ApiKeyRepository, ApiKeyService.  The table     *)
(* api_keys holds one row per saved entity, row i having id i; a nullable  *)
(* datetime column is the empty set (None) or a one-element set of times.  *)
(* A repository or service call is a function of the table and of the time *)
(* datetime.utcnow() gives, and returns the table after it and its result. *)

\* UserRole
UserRoles == {"admin", "user", "service", "readonly"}

NoTime == {}
At(t) == {t}

\* hashlib.sha256(api_key.encode()).hexdigest(): a digest is no key, and
\* different keys have different digests
Sha256(api_key) == <<"sha256", api_key>>

\* a new entity with the column defaults, as save(entity) stores it
ApiKeyEntity(id, key_hash, user_id, role, expires_at) ==
    [id |-> id, key_hash |-> key_hash, user_id |-> user_id, role |-> role,
     is_active |-> TRUE, expires_at |-> expires_at, last_used_at |-> NoTime]

\* self.get_by(key_hash=..., is_active=...)
get_by(table, key_hash, is_active) ==
    SelectSeq(table, LAMBDA e : e.key_hash = key_hash /\ e.is_active = is_active)

\* self.get_by_id(key_id)
get_by_id(table, key_id) ==
    IF key_id \in DOMAIN table THEN table[key_id] ELSE PyNone

\* self.save(entity) of an entity read from the table
save(table, entity) == [table EXCEPT ![entity.id] = entity]

\* key_entity.expires_at and key_entity.expires_at < datetime.utcnow()
Expired(expires_at, clock) == \E t \in expires_at : t < clock

\* a look-up that ignores is_active; a faulty variant of ActiveRows
AnyRows(table, key_hash) == SelectSeq(table, LAMBDA e : e.key_hash = key_hash)
\* results = self.get_by(key_hash=key_hash, is_active=True)
ActiveRows(table, key_hash) == get_by(table, key_hash, TRUE)

\* ApiKeyRepository.get_by_key: the entity or None
get_by_key(table, clock, api_key) ==
    LET results == ActiveRows(table, Sha256(api_key)) IN
    IF results = <<>> THEN PyNone
    ELSE IF Expired(results[1].expires_at, clock) THEN PyNone
    ELSE results[1]

\* ApiKeyRepository.create_key, on the key generate_key has drawn
create_key_row(table, full_key, user_id, role, expires_at) ==
    LET saved == ApiKeyEntity(Len(table) + 1, Sha256(full_key), user_id, role, expires_at)
    IN [table |-> Append(table, saved), returned |-> <<saved, full_key>>]

\* ApiKeyRepository.revoke_key
revoke_key_row(table, key_id) ==
    LET entity == get_by_id(table, key_id) IN
    IF entity = PyNone THEN [table |-> table, returned |-> FALSE]
    ELSE [table |-> save(table, [entity EXCEPT !.is_active = FALSE]),
          returned |-> TRUE]

\* ApiKeyRepository.update_last_used
update_last_used_row(table, clock, key_id) ==
    LET entity == get_by_id(table, key_id) IN
    IF entity = PyNone THEN table
    ELSE save(table, [entity EXCEPT !.last_used_at = At(clock)])

\* if entity: self.repository.update_last_used(entity.id)
StampIfFound(table, clock, entity) ==
    IF entity # PyNone THEN update_last_used_row(table, clock, entity.id)
    ELSE table

\* ApiKeyService.validate_key
validate_key_on(table, clock, api_key) ==
    LET entity == get_by_key(table, clock, api_key)
    IN [table |-> StampIfFound(table, clock, entity), returned |-> entity]

-----------------------------------------------------------------------------
(* RoleChecker and the protection of a controller's routes.  The header    *)
(* X-API-Key that is absent reaches the dependency as a falsy value, the   *)
(* empty string here.  A list of roles is used for membership and for its  *)
(* truth value alone and is a set here.                                    *)

NoApiKey == ""

HTTPException(status_code, detail) ==
    [kind |-> "error", cls |-> "HTTPException", status_code |-> status_code,
     detail |-> detail]

AuthContext(user_id, role, api_key_id) ==
    [user_id |-> user_id, role |-> role, api_key_id |-> api_key_id]

\* a role test that lets every role pass; a faulty variant
RoleAlwaysAllowed(role, allowed_roles) == FALSE
\* key_entity.role not in self.allowed_roles
RoleDenied(role, allowed_roles) == role \notin allowed_roles

\* RoleChecker.__call__: the table after the call and what it returned or
\* raised
RoleCheckerCall(table, clock, allowed_roles, api_key) ==
    IF api_key = NoApiKey
    THEN [table |-> table, out |-> HTTPException(401, "API key required")]
    ELSE LET v == validate_key_on(table, clock, api_key) IN
         IF v.returned = PyNone
         THEN [table |-> v.table,
               out |-> HTTPException(401, "Invalid or expired API key api_key ")]
         ELSE IF RoleDenied(v.returned.role, allowed_roles)
         THEN [table |-> v.table,
               out |-> HTTPException(403, "Access denied.")]
         ELSE [table |-> v.table,
               out |-> Returns(AuthContext(v.returned.user_id, v.returned.role,
                                           v.returned.id))]

\* a list of roles set by a decorator
Roles(rs) == [roles |-> rs]
\* `if route_roles:` / `if controller_roles:`: not None and not empty
Truthy(roles) == roles # PyNone /\ roles.roles # {}

\* Depends(RoleChecker(roles))
DependsRoleChecker(roles) == [checker |-> roles.roles]

\* Controller._get_protection_dependencies for an endpoint whose
\* _protected_roles is route_roles (None without @protected), in a
\* controller class whose _controller_protected_roles is controller_roles
_get_protection_dependencies(controller_roles, route_roles) ==
    IF Truthy(route_roles) THEN <<DependsRoleChecker(route_roles)>>
    ELSE IF Truthy(controller_roles) THEN <<DependsRoleChecker(controller_roles)>>
    ELSE <<>>

\* a request to a route added by add_api_route: its dependencies are called
\* in order, the first exception is the response, and the endpoint answers
\* 200 when none raises
Dispatch(table, clock, dependencies, api_key) ==
    IF dependencies = <<>>
    THEN [table |-> table, out |-> Returns(200)]
    ELSE LET c == RoleCheckerCall(table, clock, dependencies[1].checker, api_key) IN
         IF c.out.kind = "error" THEN c ELSE [table |-> c.table, out |-> Returns(200)]

\* the actions: one call each
Called(opname, call, table, out) ==
    /\ op' = opname
    /\ result' = [call |-> call, out |-> out]
    /\ api_keys' = table
    /\ UNCHANGED <<name, nodes, ancestors_cache, depth_cache, done, extracted,
                   chain_context, invoked, threads, now, dag_call>>

create_key(full_key, user_id, role, expires_at) ==
    LET r == create_key_row(api_keys, full_key, user_id, role, expires_at) IN
    Called("create_key", <<user_id, role, expires_at>>, r.table, r.returned)

revoke_key(key_id) ==
    LET r == revoke_key_row(api_keys, key_id) IN
    Called("revoke_key", <<key_id>>, r.table, r.returned)

update_last_used(key_id) ==
    Called("update_last_used", <<key_id>>, update_last_used_row(api_keys, now, key_id), PyNone)

validate_key(api_key) ==
    LET r == validate_key_on(api_keys, now, api_key) IN
    Called("validate_key", <<api_key>>, r.table, r.returned)

role_checker(allowed_roles, api_key) ==
    LET r == RoleCheckerCall(api_keys, now, allowed_roles, api_key) IN
    Called("role_checker", <<allowed_roles, api_key>>, r.table, r.out)

request(controller_roles, route_roles, api_key) ==
    LET r == Dispatch(api_keys, now,
                      _get_protection_dependencies(controller_roles, route_roles),
                      api_key)
    IN Called("request", <<controller_roles, route_roles, api_key>>, r.table, r.out)

\* time passes
tick ==
    /\ now' = now + 1
    /\ UNCHANGED <<name, nodes, ancestors_cache, depth_cache, op, result, done,
                   extracted, chain_context, invoked, threads, api_keys, dag_call>>

-----------------------------------------------------------------------------
(* The specification.                                                      *)

Init ==
    /\ name = "wf"
    /\ nodes = <<>>
    /\ ancestors_cache = EmptyMap
    /\ depth_cache = EmptyMap
    /\ op = "init"
    /\ result = NoResult
    /\ done = EmptyMap
    /\ extracted = NoResult
    /\ chain_context = PyNone
    /\ invoked = <<>>
    /\ threads = [t \in Threads |-> IdleThread]
    /\ api_keys = <<>>
    /\ now = 0
    /\ dag_call = DagIdle

\* position of an id in NodeIds
IdIndex(id) == IndexIn(NodeIds, id)

\* depends_on entries that name the node itself or a later node
ForwardCount(ns) ==
    SumSeq([i \in DOMAIN ns |->
              Cardinality({j \in DOMAIN ns[i].depends_on :
                             IdIndex(ns[i].depends_on[j]) >= IdIndex(ns[i].node_id)})])

OptOutCount(ns) == Cardinality({i \in DOMAIN ns : ~ns[i].consume_dependency_results})

IsIncreasing(s) == \A i, j \in DOMAIN s : i < j => IdIndex(s[i]) < IdIndex(s[j])

\* the depends_on arguments explored for the k-th node: distinct ids of earlier
\* nodes, listed in insertion order, or one id that is not an earlier node
DependsOnChoices(k) ==
    {s \in SeqsUpTo({NodeIds[i] : i \in 1..(k - 1)}, MaxDeps) : IsIncreasing(s)}
    \cup {<<NodeIds[i]>> : i \in k..(k + 1)}

\* the depends_on arguments of a node with at most two parents, earlier nodes
JoinChoices(k) ==
    {s \in SeqsUpTo({NodeIds[i] : i \in 1..(k - 1)}, 2) : IsIncreasing(s)}

Reverse(s) == [i \in DOMAIN s |-> s[Len(s) + 1 - i]]

\* the set iteration orders explored: for any two node ids, both relative orders
IterationOrders == {NodeKeys(nodes), Reverse(NodeKeys(nodes))}

\* the add calls explored: a new node takes the next unused name
AddWithin(max_nodes, max_irregular, choices) ==
    /\ Len(nodes) < max_nodes
    /\ \E depends_on \in choices, consume \in BOOLEAN :
          LET node_id == NodeIds[Len(nodes) + 1]
              ns == Append(nodes, WorkflowNode(node_id, "T", depends_on, consume))
          IN  /\ ForwardCount(ns) + OptOutCount(ns) <= max_irregular
              /\ add("T", node_id, depends_on, consume)

AddNew == AddWithin(MaxNodes, MaxIrregular, DependsOnChoices(Len(nodes) + 1))

AddExisting ==
    \E node_id \in NodeIdSet(nodes), task \in Tasks :
        add(task, node_id, <<>>, FALSE)

\* the targets explored: no target, a node, or the next unused name
TargetChoices == {None} \cup {NodeIds[i] : i \in 1..(Len(nodes) + 1)}

Compile ==
    \E target_node_id \in TargetChoices, ord \in IterationOrders :
        to_canvas(target_node_id, ord)

RunTask == \E l \in PlanLeaves : run_task(l)

ExtractOne == \E node_id \in NodeIdSet(nodes) : extract_one(node_id)

\* the sink lists explored: ids of nodes, in insertion order
ExtractSinks ==
    \E sink_node_ids \in {s \in SeqsUpTo(NodeIdSet(nodes), MaxSinkIds) : IsIncreasing(s)} :
        extract_sinks(sink_node_ids)

Next == AddNew \/ AddExisting \/ Compile \/ RunTask

Spec == Init /\ [][Next]_vars

\* Workflows of nodes with at most two parents, built and compiled.
AddJoinNode == AddWithin(MaxJoinNodes, 0, JoinChoices(Len(nodes) + 1))

NextJoins == AddJoinNode \/ Compile

SpecJoins == Init /\ [][NextJoins]_vars

\* Small regular workflows, built, compiled, run and projected.
AddSmall == AddWithin(MaxSmallNodes, 0, DependsOnChoices(Len(nodes) + 1))

NextProject == AddSmall \/ Compile \/ RunTask \/ ExtractOne \/ ExtractSinks

SpecProject == Init /\ [][NextProject]_vars

\* Workflows built from arbitrary depends_on arguments (ids of earlier nodes,
\* of the node itself, of later nodes, of no node at all, repeated ids),
\* validated and compiled.
ValidateIds == {NodeIds[i] : i \in 1..(MaxValidateNodes + 1)}

AddAny ==
    /\ Len(nodes) < MaxValidateNodes
    /\ \E depends_on \in SeqsUpTo(ValidateIds, MaxValidateDeps) :
          add("T", NodeIds[Len(nodes) + 1], depends_on, TRUE)

\* a call of the public method validate_dag
ValidateDag ==
    /\ op' = "validate_dag"
    /\ result' = validate_dag(nodes)
    /\ UNCHANGED <<name, nodes, ancestors_cache, depth_cache, done, extracted,
                   chain_context, invoked, threads, api_keys, now, dag_call>>

\* a call of the public method sinks
Sinks ==
    /\ op' = "sinks"
    /\ result' = IF DependentsMapRaises(nodes)
                 THEN KeyError(FirstKeyError(nodes, 1, 1))
                 ELSE Returns(sinks(nodes))
    /\ UNCHANGED <<name, nodes, ancestors_cache, depth_cache, done, extracted,
                   chain_context, invoked, threads, api_keys, now, dag_call>>

\* a pipeline of step tasks: InitContextTask, or nothing, before any number of
\* ExecuteNodeTask steps, each with any arguments, and ExtractOneTask last
StepIds == {NodeIds[i] : i \in 1..MaxStepIds}
StepTaskNames == {"T", "raises", "unregistered"}
StepArgs == {<<>>, <<PyStr("x")>>}

InitContext == op = "init" /\ init_context

ExecuteNode ==
    \E node_id \in StepIds, task_name \in StepTaskNames, task_args \in StepArgs,
       depends_on \in SeqsUpTo(StepIds, MaxStepDeps),
       consume_dependency_results \in BOOLEAN :
        execute_node(node_id, task_name, task_args, EmptyMap, depends_on,
                     consume_dependency_results)

ExtractStep == \E node_id \in StepIds : extract_step(node_id)

NextContext == InitContext \/ ExecuteNode \/ ExtractStep
SpecContext == Init /\ [][NextContext]_vars

\* single calls of ExecuteNodeTask.run: the context is any mapping of some
\* node ids to values (a string or a list), or None
StepValues == {PyStr("u"), PyList(<<PyStr("u"), PyStr("v")>>)}
StepContexts ==
    {PyNone} \cup {PyDict(f) : f \in UNION {[K -> StepValues] : K \in SUBSET StepIds}}
CallTaskNames == StepTaskNames \cup {"one", "two", "opt"}
StepKwargs == {EmptyMap, [k |-> PyStr("v")]}

InitStep ==
    /\ name = "wf"
    /\ nodes = <<>>
    /\ ancestors_cache = EmptyMap
    /\ depth_cache = EmptyMap
    /\ op = "init"
    /\ result = NoResult
    /\ done = EmptyMap
    /\ extracted = NoResult
    /\ chain_context \in StepContexts
    /\ invoked = <<>>
    /\ threads = [t \in Threads |-> IdleThread]
    /\ api_keys = <<>>
    /\ now = 0
    /\ dag_call = DagIdle

RunExecuteNode ==
    \E node_id \in StepIds, task_name \in CallTaskNames, task_args \in StepArgs,
       task_kwargs \in StepKwargs, depends_on \in SeqsUpTo(StepIds, MaxStepDeps),
       consume_dependency_results \in BOOLEAN :
        run_execute_node(node_id, task_name, task_args, task_kwargs, depends_on,
                         consume_dependency_results)

NextStep == RunExecuteNode
SpecStep == InitStep /\ [][NextStep]_vars

\* single calls of a task: run has any arity of at most MaxArity positional
\* parameters, with or without *args; the arguments are strings, lists of
\* strings and a list that holds a list
Arities ==
    {_RunArity(lo, hi, va) : lo \in 0..MaxArity, hi \in 0..MaxArity, va \in BOOLEAN}
CallValues ==
    {PyStr("u"),
     PyList(<<PyStr("u"), PyStr("v")>>),
     PyList(<<PyStr("u"), PyStr("v"), PyStr("w")>>),
     PyList(<<PyList(<<PyStr("u"), PyStr("v")>>), PyStr("w")>>)}

InitCall ==
    /\ name = "wf"
    /\ nodes = <<>>
    /\ ancestors_cache = EmptyMap
    /\ depth_cache = EmptyMap
    /\ op = "init"
    /\ result \in {[kind |-> "input", arity |-> arity, args |-> args] :
                      arity \in {a \in Arities : a.min_positional <= a.max_positional},
                      args \in SeqsUpTo(CallValues, MaxCallArgs)}
    /\ done = EmptyMap
    /\ extracted = NoResult
    /\ chain_context = PyNone
    /\ invoked = <<>>
    /\ threads = [t \in Threads |-> IdleThread]
    /\ api_keys = <<>>
    /\ now = 0
    /\ dag_call = DagIdle

NextCall == task_call
SpecCall == InitCall /\ [][NextCall]_vars

\* Workflows of nodes with at most two parents, built by one thread; then
\* to_canvas calls by the threads, during which no node is added.
Quiescent == \A t \in Threads : threads[t].pc = "idle"

AddQuiescent ==
    /\ Quiescent
    /\ AddWithin(MaxThreadNodes, 0, JoinChoices(Len(nodes) + 1))

ThreadStart ==
    \E t \in Threads, target_node_id \in TargetChoices, ord \in IterationOrders :
        thread_start(t, target_node_id, ord)

ThreadCall ==
    \E t \in Threads, fn \in {"anc", "depth"}, node \in NodeIdSet(nodes) :
        thread_call(t, fn, node)

ThreadStep == \E t \in Threads : thread_step(t)

ThreadReturn == \E t \in Threads : thread_return(t)

NextThreads == AddQuiescent \/ ThreadStart \/ ThreadCall \/ ThreadStep \/ ThreadReturn
SpecThreads == Init /\ [][NextThreads]_vars

\* the keys generate_key draws, in the order drawn (a key is never drawn
\* twice), followed by a key that is never drawn
KeyStrings == <<"k1", "k2", "k3">>
UserIds == {"u1", "u2"}
ExpiryChoices == {NoTime, At(0)}
ApiKeyHeaders == {NoApiKey} \cup Range(KeyStrings)
\* allowed_roles of a RoleChecker: among them the lists of RequireAdmin,
\* RequireUser and RequireReadonly
RoleLists == {{}, {"admin"}, {"user", "admin"}, UserRoles}
\* what a decorator leaves on an endpoint or on a controller class
ProtectionChoices == {PyNone, Roles({}), Roles({"admin"}), Roles({"user", "admin"})}

CreateKey ==
    /\ Len(api_keys) < MaxKeys
    /\ \E user_id \in UserIds, role \in UserRoles, expires_at \in ExpiryChoices :
          create_key(KeyStrings[Len(api_keys) + 1], user_id, role, expires_at)
\* create_key(user_id, expires_at=...): role is UserRole.USER
CreateUserKey ==
    /\ Len(api_keys) < MaxKeys
    /\ \E expires_at \in ExpiryChoices :
          create_key(KeyStrings[Len(api_keys) + 1], "u1", "user", expires_at)
\* create_key(user_id, role=...): expires_at is None
CreateLastingKey ==
    /\ Len(api_keys) < MaxKeys
    /\ \E role \in UserRoles :
          create_key(KeyStrings[Len(api_keys) + 1], "u1", role, NoTime)
RevokeKey == \E key_id \in 1..MaxKeys : revoke_key(key_id)
UpdateLastUsed == \E key_id \in 1..MaxKeys : update_last_used(key_id)
ValidateKey == \E api_key \in Range(KeyStrings) : validate_key(api_key)
RoleCheck == \E allowed_roles \in RoleLists, api_key \in ApiKeyHeaders :
                 role_checker(allowed_roles, api_key)
Request == \E controller_roles \in ProtectionChoices, route_roles \in ProtectionChoices,
              api_key \in ApiKeyHeaders :
               request(controller_roles, route_roles, api_key)
Tick == now < MaxTime /\ tick

\* the life of API keys
NextKeys == CreateUserKey \/ RevokeKey \/ UpdateLastUsed \/ ValidateKey \/ Tick
SpecKeys == Init /\ [][NextKeys]_vars

\* RoleChecker calls on the keys of several users
NextAuth == CreateKey \/ RevokeKey \/ RoleCheck \/ Tick
SpecAuth == Init /\ [][NextAuth]_vars

\* requests to the routes of controllers
NextRoutes == CreateLastingKey \/ RevokeKey \/ Request \/ Tick
SpecRoutes == Init /\ [][NextRoutes]_vars

\* workflows of any shape, validated, and their nodes executed on contexts
\* that hold a result for each parent
ExecuteAdded ==
    \E i \in DOMAIN nodes :
        \E f \in [Range(nodes[i].depends_on) -> StepValues] :
            execute_added_node(i, PyDict(f))

NextRepeated == AddAny \/ ValidateDag \/ ExecuteAdded
SpecRepeated == Init /\ [][NextRepeated]_vars

\* a workflow of any shape is built, then one call is made on it, a step at
\* a time: validate_dag, or to_canvas by thread 1
NoCallYet == dag_call.pc = "idle" /\ threads[1].pc = "idle"
\* depends_on names nodes, the node itself and nodes added later or not yet
AddBeforeCall ==
    /\ NoCallYet
    /\ Len(nodes) < MaxValidateNodes
    /\ \E depends_on \in SeqsUpTo({NodeIds[i] : i \in 1..MaxValidateNodes}, MaxValidateDeps) :
          add("T", NodeIds[Len(nodes) + 1], depends_on, TRUE)
ValidateDagStart == NoCallYet /\ validate_dag_start
ValidateDagStep == validate_dag_step
ToCanvasStart ==
    /\ NoCallYet
    /\ \E target_node_id \in TargetChoices, ord \in IterationOrders :
          thread_start(1, target_node_id, ord)
\* _lca calls _ancestors or _depth
ToCanvasCall ==
    \E fn \in {"anc", "depth"}, node \in NodeIdSet(nodes) : thread_call(1, fn, node)
\* a step of the _ancestors or _depth call in progress
ToCanvasHelper == thread_step(1)
ToCanvasReturn == thread_return(1)

NextTerminate == AddBeforeCall \/ ValidateDagStart \/ ValidateDagStep
                 \/ ToCanvasStart \/ ToCanvasCall \/ ToCanvasHelper \/ ToCanvasReturn
\* a validate_dag call keeps running, and so do the helper calls of a
\* to_canvas call
SpecTerminate ==
    /\ Init /\ [][NextTerminate]_vars
    /\ WF_vars(ValidateDagStep) /\ WF_vars(ToCanvasCall) /\ WF_vars(ToCanvasHelper)

NextValidate == AddAny \/ ValidateDag \/ Sinks \/ Compile

SpecValidate == Init /\ [][NextValidate]_vars

-----------------------------------------------------------------------------
(* Notions the properties are stated with, defined from the node mapping   *)
(* alone (no cache, no compiler).                                          *)

Self == Workflow(nodes, ancestors_cache, depth_cache)

\* the object as it is right after the last add: empty caches
FreshSelf == Workflow(nodes, EmptyMap, EmptyMap)

Parents(n) == IF n \in NodeIdSet(nodes) THEN Range(NodeAt(nodes, n).depends_on) ELSE {}

RECURSIVE Reach(_)
Reach(S) ==
    LET more == S \cup UNION {Parents(x) : x \in S}
    IN  IF more = S THEN S ELSE Reach(more)

\* ancestor_closure(n): n and all its transitive parents
AncestorClosure(n) == Reach({n})

\* I1-I3: every parent exists, no node depends on itself, no cycle
WellFormed ==
    /\ \A n \in NodeIdSet(nodes) : Parents(n) \subseteq NodeIdSet(nodes)
    /\ \A n \in NodeIdSet(nodes) : n \notin Reach(Parents(n))

\* I1: every id of every depends_on is a node
AllDepsExist == \A n \in NodeIdSet(nodes) : Parents(n) \subseteq NodeIdSet(nodes)

\* I2: no node lists its own id in depends_on
NoSelfDep == \A n \in NodeIdSet(nodes) : n \notin Parents(n)

\* the depends_on entries <<node position, entry position>> that name no node
\* or name the node itself
Offences ==
    {p \in UNION {{<<i, j>> : j \in DOMAIN nodes[i].depends_on} : i \in DOMAIN nodes} :
        LET dep == nodes[p[1]].depends_on[p[2]]
        IN  dep \notin NodeIdSet(nodes) \/ dep = nodes[p[1]].node_id}

\* the first of them, nodes in insertion order, entries in the order given
FirstOffence ==
    CHOOSE p \in Offences :
        \A q \in Offences : p[1] < q[1] \/ (p[1] = q[1] /\ p[2] <= q[2])

FirstOffenceDep == nodes[FirstOffence[1]].depends_on[FirstOffence[2]]

\* the parent -> child relation contains a directed cycle
HasCycle == \E n \in NodeIdSet(nodes) : n \in Reach(Parents(n))

\* the invocations of the task of node n in the run so far
Invocations(n) == {p \in DOMAIN done : NodeOfLeaf(p) = n}

\* the nodes whose task the plan holds a signature of
PlanNodes == {SubCanvas(result.plan, l.leaf).node_id : l \in PlanLeaves} \ {None}

\* what a to_canvas call gave: the plan, or the error without the values
\* formatted into its message
Outcome(out) ==
    IF out.kind = "plan" THEN out ELSE [kind |-> "error", cls |-> out.cls, msg |-> out.msg]

\* the target of the compiled plan: the argument, or the single sink
PlanTarget == IF result.target = None THEN sinks(nodes)[1] ELSE result.target

-----------------------------------------------------------------------------
(* C1. Exactly-once: in a run of the plan compiled for a target, no node's *)
(* task is invoked twice, and when the run has finished the task of every  *)
(* node of the target's ancestor closure has been invoked exactly once.    *)
C1_ExactlyOnce ==
    result.kind = "plan" =>
        \A n \in NodeIdSet(nodes) :
            /\ Cardinality(Invocations(n)) <= 1
            /\ (RunFinished /\ n \in AncestorClosure(PlanTarget))
                   => Cardinality(Invocations(n)) = 1

(* C2. Compilation is total on well-formed input: to_canvas called on a    *)
(* non-empty workflow that satisfies I1-I3, with a target that is one of   *)
(* its nodes, returns a plan.                                              *)
C2_CompileTotal ==
    (op = "to_canvas" /\ WellFormed /\ nodes # <<>>
        /\ result.target \in NodeIdSet(nodes))
    => result.kind = "plan"

(* C3. Dependency order: whenever the task of a node is invoked in a run,  *)
(* the task of every node of its depends_on has already run, whatever the  *)
(* node's consume_dependency_results flag.                                 *)
C3_DependencyOrder ==
    [][(result.kind = "plan" /\ result' = result) =>
          \A p \in DOMAIN done' \ DOMAIN done :
              NodeOfLeaf(p) # None =>
                  \A d \in Parents(NodeOfLeaf(p)) : Invocations(d) # {}]_vars

\* a node that opts out of its parents' results has run, after its parent
C3_Witness ==
    /\ result.kind = "plan"
    /\ \E p \in DOMAIN done :
          /\ NodeOfLeaf(p) # None
          /\ ~NodeAt(nodes, NodeOfLeaf(p)).consume_dependency_results
          /\ Parents(NodeOfLeaf(p)) # {}
          /\ done[p].args = <<>>

(* C4. Target pruning: the plan compiled for a target holds the tasks of   *)
(* exactly the nodes of the target's ancestor closure; a run invokes no    *)
(* other node's task, and a finished run has invoked all of them.          *)
C4_TargetPruning ==
    result.kind = "plan" =>
        /\ PlanNodes = AncestorClosure(PlanTarget)
        /\ DOMAIN RunContext \subseteq AncestorClosure(PlanTarget)
        /\ RunFinished => DOMAIN RunContext = AncestorClosure(PlanTarget)

\* a finished run for a target that left out a node depending on an ancestor
C4_Witness ==
    /\ RunFinished
    /\ result.target # None
    /\ \E c \in NodeIdSet(nodes) \ AncestorClosure(result.target) :
          Parents(c) \cap AncestorClosure(result.target) # {}
    /\ Cardinality(DOMAIN RunContext) >= 3

(* C5. Target projection: the value a finished run of the plan returns is  *)
(* what the target node's task returned, which is what ExtractOne gives    *)
(* for the target on the context of the run; ExtractOne(ctx, node_id)      *)
(* returns ctx[node_id] and fails when node_id is no key of ctx.           *)
C5_TargetProjection ==
    /\ RunFinished =>
          /\ PlanTarget \in DOMAIN RunContext
          /\ RunValue = RunContext[PlanTarget]
          /\ RunValue.node_id = PlanTarget
    /\ op = "extract_one" =>
          LET node_id == extracted.call[1]
          IN  /\ node_id \in DOMAIN RunContext
                    => extracted.out = Returns(RunContext[node_id])
              /\ node_id \notin DOMAIN RunContext => extracted.out.kind = "error"
              /\ node_id = PlanTarget => extracted.out = Returns(RunValue)

\* ExtractOne has projected the context of a run of several nodes on the target
C5_Witness ==
    /\ op = "extract_one"
    /\ extracted.call = <<PlanTarget>>
    /\ extracted.out.kind = "value"
    /\ Cardinality(DOMAIN RunContext) >= 2
    /\ DOMAIN RunContext # NodeIdSet(nodes)

(* C6. Whole-workflow compile with several sinks: to_canvas without a      *)
(* target on a well-formed workflow with two or more sinks returns a plan  *)
(* (whose run returns the mapping from each sink to its output).           *)
C6_SeveralSinksCompile ==
    (op = "to_canvas" /\ result.target = None /\ WellFormed
        /\ Len(sinks(nodes)) >= 2)
    => result.kind = "plan"

(* C7. ExtractSinks projection: the empty mapping for no sink id; for one  *)
(* sink id ctx[sink] itself, not a mapping; for two or more the mapping    *)
(* whose keys are exactly the given ids, each mapped to ctx[id].  Hence a  *)
(* whole-workflow compile of a single-sink workflow returns the bare value *)
(* of the sink.                                                            *)
C7_ExtractSinks ==
    /\ op = "extract_sinks" =>
          LET ids == extracted.call
              out == extracted.out
          IN  /\ ids = <<>> => out = Returns(PyDict(EmptyMap))
              /\ (Len(ids) = 1 /\ ids[1] \in DOMAIN RunContext)
                    => out = Returns(RunContext[ids[1]])
              /\ (Len(ids) >= 2 /\ Range(ids) \subseteq DOMAIN RunContext)
                    => /\ out.kind = "value"
                       /\ DOMAIN out.value.dict = Range(ids)
                       /\ \A id \in Range(ids) : out.value.dict[id] = RunContext[id]
              /\ (result.target = None /\ ids = sinks(nodes))
                    => out = Returns(RunValue)
    /\ (RunFinished /\ result.target = None) =>
          /\ Len(sinks(nodes)) = 1
          /\ RunValue = RunContext[sinks(nodes)[1]]

\* ExtractSinks has projected the run of a whole single-sink workflow
C7_Witness ==
    /\ op = "extract_sinks"
    /\ result.target = None
    /\ extracted.call = sinks(nodes)
    /\ extracted.out = Returns(RunValue)
    /\ Len(nodes) >= 2

(* C8. Stability: in every state, to_canvas called for any target, under   *)
(* any set iteration order and with the caches as they are, returns the    *)
(* plan (or raises the error) that the first to_canvas after the last add  *)
(* gives for that target (empty caches); the plan just returned is that    *)
(* one.                                                                    *)
C8_Stability ==
    /\ \A t \in TargetChoices, ord \in IterationOrders :
          Outcome(ToCanvasRun(Self, t, ord).out)
              = Outcome(ToCanvasRun(FreshSelf, t, NodeKeys(nodes)).out)
    /\ op = "to_canvas" =>
          Outcome(result)
              = Outcome(ToCanvasRun(FreshSelf, result.target, NodeKeys(nodes)).out)

\* the deepest common ancestors of the parents of join n
DeepestCommon(n) ==
    LET common == CommonAncestors(FreshSelf, NodeAt(nodes, n).depends_on)
    IN  {x \in common : \A y \in common : _depth(FreshSelf, y) <= _depth(FreshSelf, x)}

\* to_canvas has compiled, with filled caches, a join whose parents have two
\* deepest common ancestors: the iteration order decided which one _lca took
C8_Witness ==
    /\ op = "to_canvas"
    /\ result.target \in NodeIdSet(nodes)
    /\ WellFormed
    /\ Len(NodeAt(nodes, result.target).depends_on) >= 2
    /\ Cardinality(DeepestCommon(result.target)) >= 2
    /\ DOMAIN depth_cache # {}

(* C9. Compilation is pure: a to_canvas call, whether it returns a plan or *)
(* raises, leaves the workflow's name and node mapping unchanged.          *)
C9_CompilePure ==
    [][op' = "to_canvas" => (nodes' = nodes /\ name' = name)]_vars

\* a to_canvas call on a non-empty workflow has raised from the compiler
C9_Witness ==
    /\ op = "to_canvas"
    /\ result.kind = "error"
    /\ WellFormed
    /\ result.target \in NodeIdSet(nodes)

(* C10. add with a node_id that already exists fails with "Duplicate       *)
(* node_id" and leaves the workflow unchanged; any other add appends one   *)
(* node with a new id: node ids stay unique and a node, once added, is     *)
(* never replaced.                                                         *)
C10_DuplicateRejected ==
    [][op' = "add" =>
          /\ \A i, j \in DOMAIN nodes' : nodes'[i].node_id = nodes'[j].node_id => i = j
          /\ IF result'.node_id \in NodeIdSet(nodes)
             THEN /\ result'.kind = "error"
                  /\ result'.msg = "Duplicate node_id"
                  /\ nodes' = nodes
                  /\ ancestors_cache' = ancestors_cache
                  /\ depth_cache' = depth_cache
             ELSE /\ result'.kind = "ok"
                  /\ Len(nodes') = Len(nodes) + 1
                  /\ SubSeq(nodes', 1, Len(nodes)) = nodes
                  /\ nodes'[Len(nodes')].node_id = result'.node_id]_vars

\* an add naming an existing node, with other arguments than that node has,
\* was rejected
C10_Witness ==
    /\ op = "add"
    /\ result.kind = "error"
    /\ NodeAt(nodes, result.node_id).depends_on # <<>>
    /\ NodeAt(nodes, result.node_id).consume_dependency_results

(* C11. validate_dag is exact: called on a workflow in which every         *)
(* depends_on id is a node and no node names itself, it raises CycleError  *)
(* when the parent -> child relation has a directed cycle, and returns     *)
(* normally when it has none.                                              *)
C11_ValidateExact ==
    (op = "validate_dag" /\ AllDepsExist /\ NoSelfDep) =>
        /\ HasCycle => (result.kind = "error" /\ result.cls = "CycleError")
        /\ ~HasCycle => result = Ok

\* validate_dag has rejected a cycle through three nodes
C11_Witness ==
    /\ op = "validate_dag"
    /\ result.kind = "error"
    /\ result.cls = "CycleError"
    /\ AllDepsExist /\ NoSelfDep
    /\ Len(nodes) = 3
    /\ \A n \in NodeIdSet(nodes) :
          Cardinality(Parents(n)) = 1 /\ n \in Reach(Parents(n))

(* C12 (as stated). validate_dag, and so to_canvas, fails with "depends on *)
(* missing node" whenever some depends_on holds an id that is no node.     *)
C12_MissingAlwaysReported ==
    (op \in {"validate_dag", "to_canvas"} /\ ~AllDepsExist) =>
        /\ result.kind = "error"
        /\ result.msg = "depends on missing node"

(* C12 (amended). Whenever some depends_on holds an id that is no node,    *)
(* validate_dag, and so to_canvas, raises WorkflowError: "depends on       *)
(* missing node", naming the node and the id, when the first offending     *)
(* depends_on entry (nodes in insertion order, entries in the order given) *)
(* names no node, in particular whenever no node names itself; "cannot     *)
(* depend on itself" when that first entry names its own node.             *)
C12_MissingRejected ==
    (op \in {"validate_dag", "to_canvas"} /\ ~AllDepsExist) =>
        /\ result.kind = "error"
        /\ result.cls = "WorkflowError"
        /\ IF FirstOffenceDep \notin NodeIdSet(nodes)
           THEN /\ result.msg = "depends on missing node"
                /\ result.detail = [node_id |-> nodes[FirstOffence[1]].node_id,
                                    dep |-> FirstOffenceDep]
           ELSE result.msg = "cannot depend on itself"
        /\ NoSelfDep => result.msg = "depends on missing node"

\* to_canvas has rejected a workflow of several nodes for an id that is never
\* a node, listed after an id that is one
C12_Witness ==
    /\ op = "to_canvas"
    /\ result.kind = "error"
    /\ result.msg = "depends on missing node"
    /\ result.detail.dep = NodeIds[MaxValidateNodes + 1]
    /\ Len(nodes) >= 2
    /\ FirstOffence[2] = 2

(* C13 (as stated). validate_dag fails with "cannot depend on itself",     *)
(* which is no CycleError, whenever a node lists its own id in depends_on. *)
C13_SelfAlwaysReported ==
    (op = "validate_dag" /\ ~NoSelfDep) =>
        /\ result.kind = "error"
        /\ result.cls # "CycleError"
        /\ result.msg = "cannot depend on itself"

(* C13 (amended). Whenever a node lists its own id in depends_on,          *)
(* validate_dag, and so to_canvas, raises a WorkflowError that is no       *)
(* CycleError: "cannot depend on itself", naming the node, when the first  *)
(* offending depends_on entry names its own node, in particular whenever   *)
(* every depends_on id is a node; "depends on missing node" when that      *)
(* first entry names no node.                                              *)
C13_SelfRejected ==
    (op \in {"validate_dag", "to_canvas"} /\ ~NoSelfDep) =>
        /\ result.kind = "error"
        /\ result.cls = "WorkflowError"
        /\ IF FirstOffenceDep = nodes[FirstOffence[1]].node_id
           THEN /\ result.msg = "cannot depend on itself"
                /\ result.detail = [node_id |-> FirstOffenceDep]
           ELSE result.msg = "depends on missing node"
        /\ AllDepsExist => result.msg = "cannot depend on itself"

\* validate_dag has reported the self-loop of a node that also lies on a
\* cycle through another node
C13_Witness ==
    /\ op = "validate_dag"
    /\ result.kind = "error"
    /\ result.msg = "cannot depend on itself"
    /\ AllDepsExist
    /\ \E n \in NodeIdSet(nodes) :
          /\ n \in Parents(n)
          /\ \E m \in Parents(n) \ {n} : n \in Reach(Parents(m) \ {m})

(* C14. Validation precedes emission: a to_canvas call on a workflow with  *)
(* a dangling dependency, a self-loop or a cycle raises the error of       *)
(* validate_dag, whatever the target; it returns no plan and has run no    *)
(* part of the compiler (the caches that _lca fills are left as they were).*)
C14_ValidationFirst ==
    [][(op' = "to_canvas" /\ ~(AllDepsExist /\ NoSelfDep /\ ~HasCycle)) =>
          /\ result'.kind = "error"
          /\ result'.msg \in {"depends on missing node", "cannot depend on itself",
                               "Workflow contains a cycle"}
          /\ result'.msg = "Workflow contains a cycle" <=> (AllDepsExist /\ NoSelfDep)
          /\ ancestors_cache' = ancestors_cache
          /\ depth_cache' = depth_cache
          /\ nodes' = nodes]_vars

\* to_canvas has raised CycleError for a target that is no node, on a
\* workflow that holds a join
C14_Witness ==
    /\ op = "to_canvas"
    /\ result.kind = "error"
    /\ result.cls = "CycleError"
    /\ result.target \notin NodeIdSet(nodes) \cup {None}
    /\ uses_join(nodes)

(* C15. to_canvas on a workflow with zero nodes fails with "Workflow has   *)
(* no nodes", both when no target is given and when one is given.          *)
C15_EmptyWorkflow ==
    (op = "to_canvas" /\ nodes = <<>>) =>
        /\ result.kind = "error"
        /\ result.msg = "Workflow has no nodes"

(* C16. to_canvas with a target that is no node of a valid, non-empty      *)
(* workflow raises "Unknown target_node_id", naming the target, and        *)
(* returns no plan.                                                        *)
C16_UnknownTarget ==
    (op = "to_canvas" /\ nodes # <<>> /\ WellFormed
        /\ result.target \notin NodeIdSet(nodes) \cup {None})
    => /\ result.kind = "error"
       /\ result.cls = "WorkflowError"
       /\ result.msg = "Unknown target_node_id"
       /\ result.detail = result.target

\* to_canvas has rejected an unknown target on a valid workflow with a join
C16_Witness ==
    /\ op = "to_canvas"
    /\ result.kind = "error"
    /\ result.msg = "Unknown target_node_id"
    /\ WellFormed
    /\ uses_join(nodes)
    /\ Len(sinks(nodes)) = 1

\* the ids of the nodes that appear in no depends_on, in insertion order
NoDependents ==
    SelectSeq(NodeKeys(nodes),
              LAMBDA n : \A i \in DOMAIN nodes : n \notin Range(nodes[i].depends_on))

(* C17. sinks() returns exactly the ids of the nodes that appear in no     *)
(* node's depends_on, each once, in insertion order; the empty list on an  *)
(* empty workflow.                                                         *)
C17_Sinks ==
    op = "sinks" => result = Returns(NoDependents)


-----------------------------------------------------------------------------
(* Claims on the step tasks.                                               *)

\* what the user task invocation `call` gave
ReturnOf(call) == UserCall(call.task_name, call.args, call.kwargs)

\* the invocations of the pipeline whose user task returned
ReturnedCalls == {i \in DOMAIN invoked : ReturnOf(invoked[i]).kind = "value"}

\* C18 -- Fresh context: init_context gives the empty context, and after the
\* ExecuteNode steps of a pipeline the keys of the context are exactly the
\* node ids whose task was invoked and returned, each key holding the return
\* value of the one invocation made for that node; there is no other key.
C18_FreshContext ==
    /\ op = "init_context" =>
          /\ chain_context = PyDict(EmptyMap)
          /\ result.out = Returns(PyDict(EmptyMap))
    /\ chain_context # PyNone =>
          /\ DOMAIN chain_context.dict = {invoked[i].node_id : i \in ReturnedCalls}
          /\ \A n \in DOMAIN chain_context.dict :
                /\ Cardinality({i \in DOMAIN invoked : invoked[i].node_id = n}) = 1
                /\ \A i \in DOMAIN invoked :
                      invoked[i].node_id = n =>
                          chain_context.dict[n] = ReturnOf(invoked[i]).value

\* a pipeline that executed every node id, each task invoked once, the
\* last of them consuming the results of two earlier ones
C18_Witness ==
    /\ op = "execute_node" /\ result.kind = "value"
    /\ chain_context # PyNone
    /\ DOMAIN chain_context.dict = StepIds
    /\ Len(invoked) = MaxStepIds
    /\ \E i \in DOMAIN invoked :
          /\ invoked[i].args # <<>>
          /\ invoked[i].args[1] = PyList(<<chain_context.dict[NodeIds[1]],
                                          chain_context.dict[NodeIds[2]]>>)

\* the last step was an ExecuteNode step that returned without invoking a
\* task: its node is not the node of the last invocation
GuardHit ==
    /\ op = "execute_node" /\ result.kind = "value"
    /\ invoked # <<>>
    /\ invoked[Len(invoked)].node_id # result.node_id

\* C19 -- Write-once context: over any sequence of steps threaded through one
\* context, in any order and with repeated node ids, every key of the context
\* before a step is a key of the context after it, with the same value.
C19_WriteOnce ==
    [][\A n \in DOMAIN ContextOrEmpty(chain_context) :
          /\ n \in DOMAIN ContextOrEmpty(chain_context')
          /\ ContextOrEmpty(chain_context')[n] = ContextOrEmpty(chain_context)[n]]_vars

\* every node id written, then a step on a node id that was written before
C19_Witness ==
    /\ GuardHit
    /\ DOMAIN chain_context.dict = StepIds
    /\ Len(invoked) = MaxStepIds

\* C20 -- Idempotence guard: an ExecuteNode step whose node_id is a key of the
\* context it receives returns a context equal to that context and makes no
\* invocation and no failed lookup, whatever its other arguments are.
C20_IdempotenceGuard ==
    [][(op' = "execute_node" /\ result'.node_id \in DOMAIN ContextOrEmpty(chain_context)) =>
          /\ result'.out = Returns(PyDict(ContextOrEmpty(chain_context)))
          /\ chain_context' = chain_context
          /\ invoked' = invoked]_vars

\* a step on the first node id, written two invocations before
C20_Witness ==
    /\ GuardHit
    /\ result.node_id = invoked[1].node_id
    /\ Len(invoked) = 2
    /\ result.out = Returns(chain_context)

\* the arguments of the call of ExecuteNodeTask.run that was made last
Call == result.call

\* the context that call worked on: None is treated as empty
CallContext == ContextOrEmpty(Call.context)

\* the call added an entry for its node to the context it returned
Extended ==
    /\ op = "run_execute_node" /\ result.kind = "value"
    /\ Call.node_id \notin DOMAIN CallContext

\* C21 -- Copy-on-step: a call of ExecuteNode that succeeds for a node_id not
\* in the context returns a mapping with every entry of the input context
\* unchanged and exactly one more entry, node_id -> the value the invocation
\* returned; the input context itself is as it was (None counting as empty).
C21_CopyOnStep ==
    Extended =>
        /\ DOMAIN result.out.value.dict = DOMAIN CallContext \cup {Call.node_id}
        /\ \A n \in DOMAIN CallContext : result.out.value.dict[n] = CallContext[n]
        /\ Len(invoked) = 1
        /\ result.out.value.dict[Call.node_id] = ReturnOf(invoked[1]).value
        /\ chain_context = Call.context

\* an entry added to a context that held two entries already
C21_Witness ==
    /\ Extended
    /\ Cardinality(DOMAIN CallContext) = 2
    /\ chain_context = Call.context

\* an entry added to the empty context that stands for None
C21_WitnessNone ==
    /\ Extended
    /\ Call.context = PyNone
    /\ DOMAIN result.out.value.dict = {Call.node_id}

\* the last call got past the guard with a registered task that does not
\* raise of its own
CallsTask ==
    /\ op = "run_execute_node"
    /\ Call.node_id \notin DOMAIN CallContext
    /\ Call.task_name \in Registered \ {"raises"}

\* the last call is to inject the results of its dependencies, all present
Injects ==
    /\ Call.consume_dependency_results
    /\ Call.depends_on # <<>>
    /\ Range(Call.depends_on) \subseteq DOMAIN CallContext

\* run of the task of the last call accepts the positional arguments a
Accepts(a) == fits(RunArityOf(Call.task_name), a)

\* what run of the user task received in the last call: the value stored for
\* the node is the term run made of its arguments
Received == result.out.value.dict[Call.node_id]

\* C22 -- Single-parent payload: with exactly one parent p and the flag true,
\* run of the user task receives ctx[p] as positional argument 0, as one
\* argument whatever its type, followed by task_args in order, and receives
\* exactly task_kwargs as keyword arguments (run accepting these arguments).
C22_SinglePayload ==
    (CallsTask /\ Injects /\ Len(Call.depends_on) = 1
        /\ Accepts(<<CallContext[Call.depends_on[1]]>> \o Call.task_args)) =>
        /\ result.kind = "value"
        /\ Received.args = <<CallContext[Call.depends_on[1]]>> \o Call.task_args
        /\ Received.kwargs = Call.task_kwargs

\* the same for a payload that is not a list or a tuple
C22_SinglePayloadNoList ==
    (CallsTask /\ Injects /\ Len(Call.depends_on) = 1
        /\ ~IsList(CallContext[Call.depends_on[1]])
        /\ Accepts(<<CallContext[Call.depends_on[1]]>> \o Call.task_args)) =>
        /\ result.kind = "value"
        /\ Received.args = <<CallContext[Call.depends_on[1]]>> \o Call.task_args
        /\ Received.kwargs = Call.task_kwargs

\* the results of the dependencies of the last call, in the order of depends_on
DeclaredResults == [i \in DOMAIN Call.depends_on |-> CallContext[Call.depends_on[i]]]

OptsOut == ~Call.consume_dependency_results \/ Call.depends_on = <<>>

\* C24 -- Opt-out: with the flag false, or with no dependency, the user task
\* is invoked with exactly task_args as positional arguments (and task_kwargs),
\* whether or not the context holds the results of the parents: no payload
\* is put in front and an absent parent is no failure.
C24_OptOut ==
    (CallsTask /\ OptsOut) =>
        /\ Len(invoked) = 1
        /\ invoked[1].task_name = Call.task_name
        /\ invoked[1].args = Call.task_args
        /\ invoked[1].kwargs = Call.task_kwargs
        /\ result.kind = "error" => result.out.cls = "TypeError"

\* the flag false, a parent without a result and another with one, the task
\* invoked with its bound arguments alone
C24_Witness ==
    /\ CallsTask
    /\ ~Call.consume_dependency_results
    /\ \E i, j \in DOMAIN Call.depends_on :
          /\ Call.depends_on[i] \notin DOMAIN CallContext
          /\ Call.depends_on[j] \in DOMAIN CallContext
    /\ Call.task_args # <<>>
    /\ invoked[1].args = Call.task_args
    /\ result.kind = "value"

\* the dependencies of the last call that have no entry in its context, in
\* the order of depends_on
Absent == SelectSeq(Call.depends_on, LAMBDA d : d \notin DOMAIN CallContext)

UnknownTaskName ==
    op = "run_execute_node" /\ Call.task_name \notin (Tasks \cup {"raises", "one", "two", "opt"})

RaisedCalls == {i \in DOMAIN invoked : ReturnOf(invoked[i]).kind = "error"}

\* the step taken invoked a user task, and the task raised
TaskRaised ==
    /\ op' = "execute_node"
    /\ Len(invoked') = Len(invoked) + 1
    /\ ReturnOf(invoked'[Len(invoked')]).kind = "error"

\* C27 -- No swallowed errors: when the user task it invokes raises, the
\* ExecuteNode step fails with that same error and returns no context; no
\* step of the pipeline (ExecuteNode or extract) is taken after a step that
\* failed; the node of a task that raised is never a key of the context.
C27_NoSwallowedErrors ==
    [][/\ ~PipelineFailed
       /\ TaskRaised =>
             /\ result'.kind = "error"
             /\ result'.out = ReturnOf(invoked'[Len(invoked')])
             /\ chain_context' = chain_context
       /\ \A i \in DOMAIN invoked' :
             ReturnOf(invoked'[i]).kind = "error" =>
                 invoked'[i].node_id \notin DOMAIN ContextOrEmpty(chain_context')]_vars

\* two nodes executed, then a third whose task raised: the pipeline has
\* failed with the error of the task and the context holds the two
C27_Witness ==
    /\ PipelineFailed
    /\ Len(invoked) = 3 /\ RaisedCalls = {3}
    /\ result.out = ReturnOf(invoked[3])
    /\ Cardinality(DOMAIN chain_context.dict) = 2
    /\ invoked[3].node_id \notin DOMAIN chain_context.dict

-----------------------------------------------------------------------------
(* Claims on Task.__call__.                                                *)

\* a task was called with a list as its first positional argument
CalledWithList ==
    /\ op = "task_call"
    /\ result.args # <<>>
    /\ IsList(Head(result.args))

\* C28 -- Auto-unpacking is a no-op when run accepts the payload as one
\* argument: if the arguments as they came, the list first, fit the
\* positional arity of run, Task.__call__ calls run with the same arguments,
\* the list neither spread nor flattened.
C28_UnpackNoOp ==
    (CalledWithList /\ fits(result.arity, result.args)) =>
        result.out = Returns(result.args)

\* the same when run has no *args and fewer than two positional parameters
C28_UnpackNoOpSingle ==
    (CalledWithList /\ fits(result.arity, result.args)
        /\ ~result.arity.has_varargs /\ result.arity.max_positional < 2) =>
        result.out = Returns(result.args)

\* the task was called with one argument, a list of as many results as run
\* declares positional parameters, at least two
CalledWithResults ==
    /\ CalledWithList
    /\ Len(result.args) = 1
    /\ result.arity.max_positional >= 2
    /\ Len(result.args[1].list) = result.arity.max_positional

\* C29 -- Join unpacking: a task whose run declares k >= 2 positional
\* parameters, called with a single list of k upstream results, has run
\* called with the k results as separate positional arguments, in the order
\* of the list, and run returns what it makes of them.
C29_JoinUnpacking ==
    CalledWithResults =>
        /\ result.out = Returns(result.args[1].list)
        /\ result.returned =
              Returns([task |-> "t", args |-> result.args[1].list, kwargs |-> EmptyMap])

\* run(self, a, b) called with the list of two different results
C29_Witness ==
    /\ CalledWithResults
    /\ result.arity = _RunArity(2, 2, FALSE)
    /\ result.args = <<PyList(<<PyStr("u"), PyStr("v")>>)>>
    /\ result.out.value = <<PyStr("u"), PyStr("v")>>

-----------------------------------------------------------------------------
(* Claims on concurrent to_canvas calls.                                   *)

\* what a to_canvas call gives on the workflow when no other call runs
Alone(target_node_id, ord) == ToCanvasRun(FreshSelf, target_node_id, ord).out

\* C30 -- Concurrent compile calls on a workflow that no thread modifies:
\* under every interleaving of the cache tests, reads and writes of the
\* calls, each call returns what it returns when it runs alone.
C30_ConcurrentCompile ==
    \A t \in Threads :
        threads[t].pc = "done" =>
            threads[t].out = Alone(threads[t].target, threads[t].ord)

\* one call has returned a plan while the other is in the loop of
\* _ancestors for a node whose set the first has stored in the meantime: the
\* two computed the same cache entry at the same time
C30_Witness ==
    \E t, u \in Threads :
        /\ threads[t].pc = "done" /\ threads[t].out.kind = "plan"
        /\ threads[t].view_dc # EmptyMap
        /\ threads[u].pc = "busy" /\ threads[u].stack # <<>>
        /\ Top(threads[u]).fn = "anc" /\ Top(threads[u]).phase = "loop"
        /\ Top(threads[u]).node \in DOMAIN ancestors_cache
        /\ ancestors_cache[Top(threads[u]).node] # {}

-----------------------------------------------------------------------------
(* Claims on API keys and route protection.                                *)

\* the rows a key names
RowsOf(api_key) == {i \in DOMAIN api_keys : api_keys[i].key_hash = Sha256(api_key)}

\* the key is known, not revoked and not expired
Accepted(api_key) ==
    \E i \in RowsOf(api_key) :
        /\ api_keys[i].is_active
        /\ \A t \in api_keys[i].expires_at : t >= now

\* the row of an accepted key
RowOf(api_key) == api_keys[CHOOSE i \in RowsOf(api_key) : api_keys[i].is_active]

\* a step that is one call of the named operation
CallStep(opname) == op' = opname /\ now' = now

Denied(out, status_code) == out.kind = "error" /\ out.status_code = status_code

\* C31 -- RoleChecker decides in a fixed order: without an API key 401
\* "API key required"; with a key that is unknown, revoked or expired 401;
\* with an accepted key whose role is not in allowed_roles 403; otherwise it
\* returns the AuthContext of the key's entity (user_id, role, id).  Hence
\* no 403 for a missing or invalid key and no access for a role outside
\* allowed_roles.
C31_DecisionOrder ==
    [][CallStep("role_checker") =>
        LET allowed_roles == result'.call[1]
            api_key == result'.call[2]
            out == result'.out
        IN /\ api_key = NoApiKey =>
                  Denied(out, 401) /\ out.detail = "API key required"
           /\ api_key # NoApiKey /\ ~Accepted(api_key) => Denied(out, 401)
           /\ api_key # NoApiKey /\ Accepted(api_key) =>
                  IF RowOf(api_key).role \notin allowed_roles
                  THEN Denied(out, 403)
                  ELSE /\ out.kind = "value"
                       /\ out.value.user_id = RowOf(api_key).user_id
                       /\ out.value.role = RowOf(api_key).role
                       /\ out.value.api_key_id = RowOf(api_key).id
           /\ Denied(out, 403) => api_key # NoApiKey /\ Accepted(api_key)
           /\ out.kind = "value" => out.value.role \in allowed_roles
    ]_vars

\* the second key, of another user than the first, is given access while
\* the first key is revoked
C31_Witness ==
    /\ op = "role_checker"
    /\ result.out.kind = "value"
    /\ result.out.value.api_key_id = 2
    /\ Len(api_keys) = 2
    /\ ~api_keys[1].is_active
    /\ api_keys[1].user_id # api_keys[2].user_id

\* the status a request is answered with
StatusOf(out) == IF out.kind = "error" THEN out.status_code ELSE out.value

\* the status of a request whose only check is membership of the key's role
\* in roles
StatusUnder(roles, api_key) ==
    IF api_key = NoApiKey \/ ~Accepted(api_key) THEN 401
    ELSE IF RowOf(api_key).role \notin roles THEN 403
    ELSE 200

\* the status the protection declared on a route and its controller calls for
DeclaredStatus(controller_roles, route_roles, api_key) ==
    IF route_roles # PyNone THEN StatusUnder(route_roles.roles, api_key)
    ELSE IF controller_roles # PyNone THEN StatusUnder(controller_roles.roles, api_key)
    ELSE 200

\* C32 -- Route-level protection replaces controller-level protection: a
\* request to a route whose endpoint carries @protected[R] is checked for
\* membership in R alone, also in a @protected_controller[C] controller; a
\* route without @protected is checked against C; a route with neither is
\* reachable without a key.
C32_RouteOverrides ==
    [][CallStep("request") =>
        StatusOf(result'.out) =
            DeclaredStatus(result'.call[1], result'.call[2], result'.call[3])
    ]_vars

\* row i is active and has no expires_at earlier than the current time
Live(i) == api_keys[i].is_active /\ \A t \in api_keys[i].expires_at : t >= now

\* C38 -- API-key lifecycle: validate_key returns the entity of a key only
\* while the key is active and has no expires_at or an expires_at not
\* earlier than the current time; revoke_key returning true leaves the key
\* inactive, and no create_key, revoke_key, update_last_used or validate_key
\* makes an inactive key active, so that a revoked key never validates
\* again; and validate_key changes last_used_at of no row but the one that
\* validated.
C38_KeyLifecycle ==
    [][/\ CallStep("validate_key") =>
            LET api_key == result'.call[1]
                out == result'.out
            IN /\ out # PyNone =>
                      /\ Accepted(api_key)
                      /\ out.id \in RowsOf(api_key)
                      /\ Live(out.id)
               /\ \A i \in DOMAIN api_keys :
                      api_keys'[i] # api_keys[i] =>
                          /\ out # PyNone /\ out.id = i
                          /\ api_keys'[i] = [api_keys[i] EXCEPT !.last_used_at = At(now)]
       /\ CallStep("revoke_key") =>
            (result'.out = TRUE => ~api_keys'[result'.call[1]].is_active)
       /\ \A i \in DOMAIN api_keys : ~api_keys[i].is_active => ~api_keys'[i].is_active
      ]_vars

\* a key that had validated is revoked, and a later validate_key rejects it
\* while the other key exists
C38_Witness ==
    /\ op = "validate_key"
    /\ result.call = <<KeyStrings[1]>>
    /\ result.out = PyNone
    /\ Len(api_keys) = 2
    /\ ~api_keys[1].is_active
    /\ api_keys[1].last_used_at # NoTime
    /\ api_keys[1].expires_at = NoTime

-----------------------------------------------------------------------------
(* Claims on the caches, on repeated and missing parents, and on           *)
(* termination.                                                            *)

\* the transitive parents of n in the current nodes
TrueAncestors(n) == Reach(Parents(n))

\* the number of edges of the longest path that ends in n, among the paths
\* of at most k edges
RECURSIVE LongestPath(_, _)
LongestPath(n, k) ==
    IF k = 0 \/ Parents(n) = {} THEN 0
    ELSE 1 + SetMax({LongestPath(p, k - 1) : p \in Parents(n)})

TrueDepth(n) == LongestPath(n, Len(nodes))

\* C33 -- Cache coherence: after any sequence of add calls (successful or
\* rejected as duplicate) and to_canvas calls (returning or raising), every
\* entry of the ancestors cache is the transitive-parent set of its node
\* and every entry of the depth cache is the longest-path depth of its
\* node, in the current nodes: no entry is stale.
C33_CacheCoherence ==
    /\ \A n \in DOMAIN ancestors_cache :
           n \in NodeIdSet(nodes) /\ ancestors_cache[n] = TrueAncestors(n)
    /\ \A n \in DOMAIN depth_cache :
           n \in NodeIdSet(nodes) /\ depth_cache[n] = TrueDepth(n)

\* a rejected add has left entries in both caches, among them a node with
\* two ancestors or more and a node that is not a root
C33_Witness ==
    /\ op = "add"
    /\ result.kind = "error"
    /\ \E n \in DOMAIN ancestors_cache : Cardinality(ancestors_cache[n]) >= 2
    /\ \E n \in DOMAIN depth_cache : depth_cache[n] >= 1

\* the sequence lists some id twice
Repeats(depends_on) ==
    \E i, j \in DOMAIN depends_on : i # j /\ depends_on[i] = depends_on[j]

\* some node lists a parent twice
RepeatedParent == \E i \in DOMAIN nodes : Repeats(nodes[i].depends_on)

\* C34 -- Repeated parent ids are neither rejected nor deduplicated: add
\* accepts a depends_on that lists a parent twice and stores it as given;
\* validate_dag returns normally on a workflow with such a node when every
\* parent exists, no node names itself and there is no cycle; and
\* ExecuteNode puts one entry per listed occurrence in the payload, so that
\* depends_on [p, p] gives the list [ctx[p], ctx[p]].
C34_RepeatedParents ==
    /\ op = "add" =>
           /\ result.kind = "ok"
           /\ result.node_id = nodes[Len(nodes)].node_id
    /\ (op = "validate_dag" /\ RepeatedParent /\ AllDepsExist /\ NoSelfDep /\ ~HasCycle) =>
           result = Ok
    /\ (CallsTask /\ Injects /\ Repeats(Call.depends_on)) =>
           /\ Len(invoked) = 1
           /\ invoked[1].args = <<PyList(DeclaredResults)>>
           /\ Len(invoked[1].args[1].list) = Len(Call.depends_on)

\* the second node was added with depends_on [a, a]; its task has been
\* invoked with the result of a twice
C34_Witness ==
    /\ op = "run_execute_node"
    /\ Len(nodes) >= 2
    /\ nodes[2].depends_on = <<NodeIds[1], NodeIds[1]>>
    /\ Call.node_id = NodeIds[2]
    /\ Len(invoked) = 1
    /\ invoked[1].node_id = NodeIds[2]
    /\ invoked[1].args = <<PyList(<<PyStr("u"), PyStr("u")>>)>>

\* C35 -- add does not check depends_on: it accepts a node that names a
\* parent added later or never.  While some depends_on id is not a node,
\* sinks() fails with an error instead of returning a list; in every state
\* where all depends_on ids are nodes it returns a list, also when the graph
\* is cyclic.
C35_SinksOnDangling ==
    /\ op = "add" =>
           /\ result.kind = "ok"
           /\ result.node_id = nodes[Len(nodes)].node_id
    /\ op = "sinks" =>
           IF AllDepsExist
           THEN result.kind = "value" /\ Range(result.value) \subseteq NodeIdSet(nodes)
           ELSE result.kind = "error"

\* the first node names the second, added after it, and the two form a
\* cycle: sinks() has returned a list
C35_Witness ==
    /\ op = "sinks"
    /\ result.kind = "value"
    /\ Len(nodes) >= 2
    /\ NodeIds[2] \in Range(nodes[1].depends_on)
    /\ HasCycle

-----------------------------------------------------------------------------
(* Claims on the factoring of joins.                                       *)

\* the paths of the sub-canvases of the plan
PlanPaths == UNION {{SubSeq(l.leaf, 1, k) : k \in 0..Len(l.leaf)} : l \in PlanLeaves}

\* the leaves of the plan that lie in the sub-canvas at path p
LeavesUnder(p) == {l \in PlanLeaves : IsPrefix(p, l.leaf)}

\* the node ids whose task has a signature in the sub-canvas at path p
NodesUnder(p) == {SubCanvas(result.plan, l.leaf).node_id : l \in LeavesUnder(p)} \ {None}

\* the signature whose result is the result of canvas c
RECURSIVE LastSig(_)
LastSig(c) == IF c.t = "sig" THEN c ELSE LastSig(c.tasks[Len(c.tasks)])

\* the joins factored around a common ancestor: chain(prefix, group(...),
\* node_sig) is the only canvas of three parts that compile builds
FactoredJoins ==
    {q \in PlanPaths : /\ SubCanvas(result.plan, q).t = "chain"
                       /\ Len(SubCanvas(result.plan, q).tasks) = 3}

\* the join at path q is well factored around L, the node whose result its
\* prefix returns
WellFactored(q) ==
    LET c == SubCanvas(result.plan, q)
        L == LastSig(c.tasks[1]).node_id
        n == c.tasks[3].node_id
    IN  /\ c.tasks[2].t = "group" /\ c.tasks[3].t = "sig"
        /\ L \in NodeIdSet(nodes) /\ n \in NodeIdSet(nodes)
        /\ Len(c.tasks[2].tasks) = Len(NodeAt(nodes, n).depends_on)
        /\ Len(c.tasks[2].tasks) >= 2
        \* L is a common ancestor of the join's parents, or one of them
        /\ \A d \in Parents(n) : L \in TrueAncestors(d) \cup {d}
        \* the prefix is L's own subgraph, and L's task is there once
        /\ NodesUnder(Append(q, 1)) = AncestorClosure(L)
        /\ Cardinality({l \in LeavesUnder(q) : SubCanvas(result.plan, l.leaf).node_id = L}) = 1
        \* every branch starts with the identity step on the prefix's result
        /\ \A i \in DOMAIN c.tasks[2].tasks :
               \E l \in LeavesUnder(q \o <<2, i>>) : l.src = Source(Append(q, 1))
        /\ \A l \in LeavesUnder(Append(q, 2)) :
               l.src = Source(Append(q, 1)) =>
                   SubCanvas(result.plan, l.leaf) = _identity_signature
        \* no branch holds the task of L or of an ancestor of L
        /\ NodesUnder(Append(q, 2)) \cap AncestorClosure(L) = {}

\* C36 -- Join factoring: whenever a plan returned by to_canvas factors a
\* multi-parent join around a common ancestor L, the prefix is L's own
\* subgraph, run once, every parallel branch of the join starts with the
\* identity step applied to L's result, and no branch holds the task of L
\* or of an ancestor of L; a join whose branches cannot be compiled this way
\* makes to_canvas raise WorkflowError, so no returned plan re-runs or
\* skips L.
C36_JoinFactoring ==
    /\ op = "to_canvas" /\ result.kind = "plan" => \A q \in FactoredJoins : WellFactored(q)
    /\ op = "to_canvas" /\ result.kind = "error" => result.cls \in {"WorkflowError", "CycleError"}

\* a plan whose join is factored around a node that has a parent and is
\* itself a parent of the join, with a branch that holds a join of its own
C36_Witness ==
    /\ op = "to_canvas" /\ result.kind = "plan"
    /\ \E q \in FactoredJoins :
           LET c == SubCanvas(result.plan, q)
           IN  /\ c.tasks[1].t = "chain"
               /\ \E i \in DOMAIN c.tasks[2].tasks : c.tasks[2].tasks[i] = _identity_signature
               /\ \E i \in DOMAIN c.tasks[2].tasks :
                      /\ c.tasks[2].tasks[i].t = "chain"
                      /\ c.tasks[2].tasks[i].tasks[1].t = "group"

-----------------------------------------------------------------------------
(* Claims on termination.                                                  *)

\* the sequence lists nothing twice
NoRepeat(s) == \A i, j \in DOMAIN s : s[i] = s[j] => i = j

\* in the loop of validate_dag no node is popped from the ready list twice,
\* and the helpers _ancestors and _depth run on valid workflows alone, never
\* deeper than there are nodes
C37_Bounded ==
    /\ dag_call.pc # "idle" =>
           /\ NoRepeat(dag_call.popped)
           /\ Range(dag_call.popped) \subseteq NodeIdSet(nodes)
    /\ dag_call.pc = "loop" => dag_call.visited = Len(dag_call.popped)
    /\ threads[1].pc = "busy" =>
           /\ AllDepsExist /\ NoSelfDep /\ ~HasCycle
           /\ Len(threads[1].stack) <= Len(nodes)
    /\ threads[1].pc = "done" => threads[1].out.kind \in {"plan", "error"}

\* thread 1 has made every helper call of its to_canvas: what is left is to
\* build the canvas from the values returned
HelpersDone ==
    /\ threads[1].pc = "busy"
    /\ threads[1].stack = <<>>
    /\ threads[1].anc_todo = {} /\ threads[1].dep_todo = {}

\* C37 -- Termination: a validate_dag call terminates on every workflow,
\* cyclic ones included, each node being removed from the ready list at
\* most once; a to_canvas call terminates, returning a plan or raising, on
\* every workflow: the recursive helpers are reached only after validation
\* has established that the workflow is acyclic, and their calls come to an
\* end.
C37_Termination ==
    /\ []C37_Bounded
    /\ (dag_call.pc = "loop") ~> (dag_call.pc = "done")
    /\ (threads[1].pc = "busy") ~> (HelpersDone \/ threads[1].pc = "done")
    /\ (threads[1].pc = "busy" /\ threads[1].stack # <<>>) ~> (threads[1].stack = <<>>)

\* validate_dag has returned CycleError on a workflow with a cycle after
\* popping the one node outside the cycle
C37_Witness ==
    /\ dag_call.pc = "done"
    /\ dag_call.out.kind = "error"
    /\ dag_call.out.cls = "CycleError"
    /\ Len(dag_call.popped) = 1
    /\ HasCycle
    /\ Len(nodes) = 3

====
